---- MODULE Spec2Model ----
(***************************************************************************)
(* Gpufit: the batched Levenberg-Marquardt driver and its per-iteration    *)
(* kernels (src/Gpufit/info.h), for one chunk of fits.                     *)
(*                                                                         *)
(* Two engine runs advance in lock step over the same inputs: the run      *)
(* "batch" holds every fit of the chunk, the run "solo" holds fit SoloFit  *)
(* alone.  Each kernel launch is one action; it acts on every fit of every *)
(* run that is still inside its iteration loop.                            *)
(*                                                                         *)
(* Numbers.  Data, model values and parameters are multiples of 1/Scale,   *)
(* chi-squares are multiples of 1/Scale^2 (ChiOne is the chi-square 1.0).  *)
(* lambda is kept as its decimal exponent: lambdas[s] = e means 10^e.      *)
(***************************************************************************)
EXTENDS Integers, Sequences, FiniteSets, Bags, TLC

(* ------------------------------ bounds -------------------------------- *)

\* max_n_iterations is drawn from 1..MaxIterations
MaxIterations == 3
\* data, values and parameters are multiples of 1/Scale
Scale == 2
\* the iteration budget of the long call
LongBudget == 47

(* ----------------------------- constants ------------------------------ *)

STATE_CONVERGED == 0
STATE_MAX_ITERATION == 1
STATE_SINGULAR_HESSIAN == 2
STATE_NEG_CURVATURE_MLE == 3
STATE_GPU_NOT_READY == 4

\* single-precision floats: decimal exponents of the smallest positive
\* (denormal, 1.4e-45) and of the largest finite (3.4e38) value
FloatMinExp10 == 0 - 45
FloatMaxExp10 == 38

LSE == "LSE"
MLE == "MLE"

\* the chi-square value 1.0
ChiOne == Scale * Scale

\* the fits of the chunk, and the fit that is also run alone
Fits == {1, 2}
SoloFit == CHOOSE f \in Fits : \A g \in Fits : f <= g

(* ------------------------------- slots -------------------------------- *)

Runs == {"batch", "solo"}
Slots == {<<"batch", f>> : f \in Fits} \cup {<<"solo", SoloFit>>}
RunOf(s) == s[1]
InputOf(s) == s[2]
SlotsOf(r) == {s \in Slots : RunOf(s) = r}

VARIABLES
    \* inputs of the call
    data, weights, initial_parameters, parameters_to_fit, estimator_id,
    max_n_iterations, tolerance,
    \* per-fit device state
    parameters, prev_parameters, chi_squares, prev_chi_squares, lambdas,
    finished, iteration_failed, n_iterations, states,
    \* per-iteration scratch
    values, deltas, singular_checks,
    \* the equation system of every fit: gradient vector and Hessian matrix
    gradients, hessians,
    \* driver
    all_finished, running, iteration, pc,
    \* the Info object of the call (planner state)
    info,
    \* the thread block in flight, thread by thread
    block,
    \* history (not program state)
    min_chi, exit_path, tol_failures, last_step, accepted_chi

inputs == <<data, weights, initial_parameters, parameters_to_fit, estimator_id,
            max_n_iterations, tolerance>>
fitstate == <<parameters, prev_parameters, chi_squares, prev_chi_squares, lambdas,
              finished, iteration_failed, n_iterations, states>>
scratch == <<values, deltas, singular_checks>>
equations == <<gradients, hessians>>
driver == <<all_finished, running, iteration, pc>>
history == <<min_chi, exit_path, tol_failures, last_step, accepted_chi>>
vars == <<inputs, fitstate, scratch, equations, driver, history, info, block>>

(* ------------------------------ helpers ------------------------------- *)

Abs(x) == IF x < 0 THEN -x ELSE x
Min(a, b) == IF a <= b THEN a ELSE b

n_parameters == Len(parameters_to_fit)

\* Info::set_number_of_parameters_to_fit: n_parameters minus the zero flags
RECURSIVE CountZeros(_, _)
CountZeros(mask, i) ==
    IF i > Len(mask) THEN 0
    ELSE (IF mask[i] = 0 THEN 1 ELSE 0) + CountZeros(mask, i + 1)
n_parameters_to_fit == Len(parameters_to_fit) - CountZeros(parameters_to_fit, 1)

\* the free-parameter index table: the indices whose flag is 1, ascending
RECURSIVE IndexTable(_, _)
IndexTable(mask, i) ==
    IF i > Len(mask) THEN <<>>
    ELSE (IF mask[i] = 1 THEN <<i>> ELSE <<>>) \o IndexTable(mask, i + 1)
parameters_to_fit_indices == IndexTable(parameters_to_fit, 1)

\* a launch acts on the fits of the runs that are still in their loop
Live(s) == running[RunOf(s)]

(* ------------------- model function and estimators -------------------- *)

\* the x grid handed over in user_info: one point, x = 1
user_info == <<1>>
n_points == Len(user_info)
Points == 1..n_points

\* LINEAR_1D: value = p0 + p1 * x at every point
calculate_linear1d(p) == [k \in Points |-> p[1] + p[2] * user_info[k]]

\* LSE summand w * (d - v)^2
calculate_chi_square_lse(d, v, w) == w * (d - v) * (d - v)

\* MLE summand 2 * (v - d - d * ln(v / d)), with ln(x) taken as
\* 2 * (x - 1) / (x + 1); exact for d = 0 (2 * v) and for v = d (0).
\* The term is skipped when v <= 0.
calculate_chi_square_mle(d, v) ==
    IF v <= 0 THEN 0 ELSE (2 * Scale * (v - d) * (v - d)) \div (v + d)

\* sum_up_floats: the sum of the reduction buffer
RECURSIVE sum_up_floats(_, _)
sum_up_floats(shared, k) ==
    IF k > Len(shared) THEN 0 ELSE shared[k] + sum_up_floats(shared, k + 1)

(* ------------------------------ kernels ------------------------------- *)

\* cuda_calc_curve_values: early exit for finished fits
cuda_calc_curve_values(s) ==
    IF finished[s] = 1 THEN values[s] ELSE calculate_linear1d(parameters[s])

\* cuda_calculate_chi_squares: chi-square, MLE state, iteration_failed
ChiSquareFrom(f, vals) ==
    LET shared == [k \in Points |->
                     IF estimator_id = LSE
                     THEN calculate_chi_square_lse(data[f][k], vals[k], weights[f][k])
                     ELSE calculate_chi_square_mle(data[f][k], vals[k])]
    IN  sum_up_floats(shared, 1)

ChiSquareOf(s) == ChiSquareFrom(InputOf(s), values[s])

\* faulty variant: a chi-square that did not fall always fails the iteration,
\* also while prev_chi_squares still holds its initial 0
cuda_calculate_chi_squares_NoInitTest(s) ==
    IF finished[s] = 1
    THEN [chi_squares |-> chi_squares[s], states |-> states[s],
          iteration_failed |-> iteration_failed[s]]
    ELSE LET chi == ChiSquareOf(s)
             chi_square_increased == chi >= prev_chi_squares[s]
         IN  [chi_squares |-> chi,
              states |-> IF estimator_id = MLE /\ \E k \in Points : values[s][k] <= 0
                         THEN STATE_NEG_CURVATURE_MLE ELSE states[s],
              iteration_failed |-> IF chi_square_increased THEN 1 ELSE 0]

cuda_calculate_chi_squares(s) ==
    IF finished[s] = 1
    THEN [chi_squares |-> chi_squares[s], states |-> states[s],
          iteration_failed |-> iteration_failed[s]]
    ELSE LET chi == ChiSquareOf(s)
             prev_chi_squares_initialized == prev_chi_squares[s] # 0
             chi_square_increased == chi >= prev_chi_squares[s]
         IN  [chi_squares |-> chi,
              states |-> IF estimator_id = MLE /\ \E k \in Points : values[s][k] <= 0
                         THEN STATE_NEG_CURVATURE_MLE ELSE states[s],
              iteration_failed |->
                  IF prev_chi_squares_initialized /\ chi_square_increased THEN 1 ELSE 0]

\* cuda_update_state_after_gaussjordan
cuda_update_state_after_gaussjordan(s) ==
    IF singular_checks[s] = 1 THEN STATE_SINGULAR_HESSIAN ELSE states[s]

\* cuda_update_parameters: one thread per parameter slot.  Thread t copies
\* slot t into prev_parameters and then, if the fit is not finished and
\* t <= n_parameters_to_fit, adds deltas[t] to slot indices[t].  There is no
\* barrier between the copy of one thread and the add of another: for every
\* slot in early the add of the other thread lands before the copy.
\* faulty variant: the add does not look at finished
AddedTo_IgnoringFinished(s, j) ==
    LET ps == {p \in 1..n_parameters_to_fit : parameters_to_fit_indices[p] = j}
    IN  IF ps = {} THEN 0 ELSE deltas[s][CHOOSE p \in ps : TRUE]

\* faulty variant: thread p adds to slot p instead of slot indices[p]
AddedTo_OwnSlot(s, j) ==
    IF finished[s] = 1 \/ j > n_parameters_to_fit THEN 0 ELSE deltas[s][j]

AddedTo(s, j) ==
    IF finished[s] = 1 THEN 0
    ELSE LET ps == {p \in 1..n_parameters_to_fit : parameters_to_fit_indices[p] = j}
         IN  IF ps = {} THEN 0 ELSE deltas[s][CHOOSE p \in ps : TRUE]

cuda_update_parameters(s, early) ==
    [prev_parameters |->
        [j \in 1..n_parameters |->
            IF j \in early THEN parameters[s][j] + AddedTo(s, j) ELSE parameters[s][j]],
     parameters |->
        [j \in 1..n_parameters |-> parameters[s][j] + AddedTo(s, j)]]

\* cuda_check_for_convergence
\* faulty variant: the tolerance is relative to chi_squares alone, without fmaxf
fit_found_Relative(s) ==
    Abs(chi_squares[s] - prev_chi_squares[s]) * tolerance[2]
        < tolerance[1] * chi_squares[s]

fit_found(s) ==
    LET
        Max(a, b) == IF a >= b THEN a ELSE b
    IN
    Abs(chi_squares[s] - prev_chi_squares[s]) * tolerance[2]
        < tolerance[1] * Max(ChiOne, chi_squares[s])

\* faulty variant: the budget test compares with max_n_iterations
cuda_check_for_convergence_LateBudget(s) ==
    LET max_n_iterations_reached == iteration = max_n_iterations
    IN  IF finished[s] = 1
        THEN [finished |-> finished[s], states |-> states[s]]
        ELSE IF fit_found(s)
        THEN [finished |-> 1, states |-> states[s]]
        ELSE IF max_n_iterations_reached
        THEN [finished |-> finished[s], states |-> STATE_MAX_ITERATION]
        ELSE [finished |-> finished[s], states |-> states[s]]

\* faulty variant: the budget test fires one iteration early
cuda_check_for_convergence_EarlyBudget(s) ==
    LET max_n_iterations_reached == iteration + 1 = max_n_iterations - 1
    IN  IF finished[s] = 1
        THEN [finished |-> finished[s], states |-> states[s]]
        ELSE IF fit_found(s)
        THEN [finished |-> 1, states |-> states[s]]
        ELSE IF max_n_iterations_reached
        THEN [finished |-> finished[s], states |-> STATE_MAX_ITERATION]
        ELSE [finished |-> finished[s], states |-> states[s]]

\* faulty variant: the budget test comes before the tolerance test
cuda_check_for_convergence_BudgetFirst(s) ==
    LET max_n_iterations_reached == iteration = max_n_iterations - 1
    IN  IF finished[s] = 1
        THEN [finished |-> finished[s], states |-> states[s]]
        ELSE IF max_n_iterations_reached
        THEN [finished |-> finished[s], states |-> STATE_MAX_ITERATION]
        ELSE IF fit_found(s)
        THEN [finished |-> 1, states |-> states[s]]
        ELSE [finished |-> finished[s], states |-> states[s]]

cuda_check_for_convergence(s) ==
    LET max_n_iterations_reached == iteration = max_n_iterations - 1
    IN  IF finished[s] = 1
        THEN [finished |-> finished[s], states |-> states[s]]
        ELSE IF fit_found(s)
        THEN [finished |-> 1, states |-> states[s]]
        ELSE IF max_n_iterations_reached
        THEN [finished |-> finished[s], states |-> STATE_MAX_ITERATION]
        ELSE [finished |-> finished[s], states |-> states[s]]

\* faulty variant: the iteration index is recorded, not the iteration count
cuda_evaluate_iteration_ZeroBased(s) ==
    LET fin == IF states[s] # STATE_CONVERGED THEN 1 ELSE finished[s]
    IN  [finished |-> fin,
         n_iterations |-> IF fin = 1 /\ n_iterations[s] = 0
                          THEN iteration ELSE n_iterations[s]]

\* faulty variant: every fit is marked finished, whatever its state
cuda_evaluate_iteration_MarksAll(s) ==
    [finished |-> 1,
     n_iterations |-> IF n_iterations[s] = 0 THEN iteration + 1 ELSE n_iterations[s]]

\* faulty variant: a fit with a non-zero state is not marked finished
cuda_evaluate_iteration_KeepsLive(s) ==
    [finished |-> finished[s],
     n_iterations |-> IF finished[s] = 1 /\ n_iterations[s] = 0
                      THEN iteration + 1 ELSE n_iterations[s]]

\* faulty variant: the count is recorded in every iteration a fit is finished
cuda_evaluate_iteration_Recounts(s) ==
    LET fin == IF states[s] # STATE_CONVERGED THEN 1 ELSE finished[s]
    IN  [finished |-> fin,
         n_iterations |-> IF fin = 1 THEN iteration + 1 ELSE n_iterations[s]]

\* cuda_evaluate_iteration, the per-fit writes of one thread
cuda_evaluate_iteration(s) ==
    LET fin == IF states[s] # STATE_CONVERGED THEN 1 ELSE finished[s]
    IN  [finished |-> fin,
         n_iterations |-> IF fin = 1 /\ n_iterations[s] = 0
                          THEN iteration + 1 ELSE n_iterations[s]]

\* the last lines of one thread of cuda_evaluate_iteration, on the flag af
\* shared by the launch: a thread whose fit is not finished stores 0
\* faulty variant: every thread stores the finished flag of its fit
evaluate_iteration_thread_StoresFlag(af, fin) == fin
evaluate_iteration_thread(af, fin) == IF fin = 0 THEN 0 ELSE af

\* the flag after the threads have stored in the order o, from k on
RECURSIVE all_finished_after(_, _, _, _)
all_finished_after(o, k, fin, af) ==
    IF k > Len(o) THEN af
    ELSE all_finished_after(o, k + 1, fin, evaluate_iteration_thread(af, fin[o[k]]))

\* lambdas[fit_index] *= 0.1f and *= 10.f on a float kept as its decimal
\* exponent: below the smallest positive float the product rounds to 0,
\* above the largest it is +inf, and 0 and +inf stay what they are.
LambdaZero == FloatMinExp10 - 1
LambdaInf == FloatMaxExp10 + 1
MulTenth(l) == IF l \in {LambdaZero, LambdaInf} THEN l ELSE l - 1
\* faulty variant: a rejected step leaves lambda as it is
MulTen_Unchanged(l) == l
MulTen(l) == IF l \in {LambdaZero, LambdaInf} THEN l ELSE l + 1

\* cuda_prepare_next_iteration: every fit of the launch, finished or not
cuda_prepare_next_iteration(s) ==
    IF chi_squares[s] < prev_chi_squares[s]
    THEN [lambdas |-> MulTenth(lambdas[s]),
          chi_squares |-> chi_squares[s],
          prev_chi_squares |-> chi_squares[s],
          parameters |-> parameters[s]]
    ELSE [lambdas |-> MulTen(lambdas[s]),
          chi_squares |-> prev_chi_squares[s],
          prev_chi_squares |-> prev_chi_squares[s],
          parameters |-> prev_parameters[s]]

(* ------------- gradient, Hessian and damping (steps 3 to 5) ------------ *)

\* LINEAR_1D derivatives: 1 for the offset, x for the slope
calculate_linear1d_derivative(j, k) == IF j = 1 THEN 1 ELSE user_info[k]

\* LSE gradient summand -2 * w * (d - v) * dv, in units of 1/Scale
calculate_gradient_lse(d, v, w, dv) == (0 - 2) * w * (d - v) * dv

\* MLE gradient summand 2 * (1 - d / v) * dv, in units of 1/Scale;
\* the term is skipped when v <= 0
calculate_gradient_mle(d, v, dv) ==
    IF v <= 0 THEN 0 ELSE ((2 * Scale * (v - d)) \div v) * dv

\* LSE Hessian summand 2 * w * dv_i * dv_j
calculate_hessian_lse(w, dvi, dvj) == 2 * w * dvi * dvj

\* MLE Hessian summand 2 * (d / v^2) * dv_i * dv_j; skipped when v <= 0
calculate_hessian_mle(d, v, dvi, dvj) ==
    IF v <= 0 THEN 0 ELSE ((2 * Scale * d) \div (v * v)) * dvi * dvj

\* A Hessian entry is the computed sum times the damping factors it has
\* been multiplied by and over those it has been divided by; the factor
\* 1 + 10^e is named by e. Equal finite factors cancel.
Undamped(sum) == [sum |-> sum, times |-> EmptyBag, over |-> EmptyBag]

\* h * (1.0f + lambda): 1 + 0 is 1; 1 + inf is inf and cancels nothing
TimesOnePlus(h, l) ==
    IF l = LambdaZero THEN h
    ELSE IF l # LambdaInf /\ BagIn(l, h.over)
         THEN [h EXCEPT !.over = @ (-) SetToBag({l})]
         ELSE [h EXCEPT !.times = @ (+) SetToBag({l})]

\* h / (1.0f + lambda)
OverOnePlus(h, l) ==
    IF l = LambdaZero THEN h
    ELSE IF l # LambdaInf /\ BagIn(l, h.times)
         THEN [h EXCEPT !.times = @ (-) SetToBag({l})]
         ELSE [h EXCEPT !.over = @ (+) SetToBag({l})]

\* the gradient of fit s from its current curve values
GradientOf(s) ==
    [p \in 1..n_parameters_to_fit |->
        LET f == InputOf(s)
            j == parameters_to_fit_indices[p]
            shared == [k \in Points |->
                IF estimator_id = LSE
                THEN calculate_gradient_lse(data[f][k], values[s][k], weights[f][k],
                                            calculate_linear1d_derivative(j, k))
                ELSE calculate_gradient_mle(data[f][k], values[s][k],
                                            calculate_linear1d_derivative(j, k))]
        IN  sum_up_floats(shared, 1)]

\* cuda_calculate_gradients: skipped for finished and for failed fits
cuda_calculate_gradients(s) ==
    IF finished[s] = 1 \/ iteration_failed[s] = 1 THEN gradients[s] ELSE GradientOf(s)

\* the undamped Hessian of fit s from its current curve values
HessianOf(s) ==
    [i \in 1..n_parameters_to_fit |-> [j \in 1..n_parameters_to_fit |->
        LET f == InputOf(s)
            pi == parameters_to_fit_indices[i]
            pj == parameters_to_fit_indices[j]
            shared == [k \in Points |->
                IF estimator_id = LSE
                THEN calculate_hessian_lse(weights[f][k],
                                           calculate_linear1d_derivative(pi, k),
                                           calculate_linear1d_derivative(pj, k))
                ELSE calculate_hessian_mle(data[f][k], values[s][k],
                                           calculate_linear1d_derivative(pi, k),
                                           calculate_linear1d_derivative(pj, k))]
        IN  Undamped(sum_up_floats(shared, 1))]]

\* faulty variant: the Hessian of a failed fit is computed again
cuda_calculate_hessians_NoSkip(s) ==
    IF finished[s] = 1 THEN hessians[s] ELSE HessianOf(s)

\* cuda_calculate_hessians: skipped for finished and for failed fits
cuda_calculate_hessians(s) ==
    IF finished[s] = 1 \/ iteration_failed[s] = 1 THEN hessians[s] ELSE HessianOf(s)

\* faulty variant: the earlier damping of a failed fit is not undone
cuda_modify_step_widths_NoUndo(s) ==
    IF finished[s] = 1 THEN hessians[s]
    ELSE [i \in 1..n_parameters_to_fit |-> [j \in 1..n_parameters_to_fit |->
            IF i # j THEN hessians[s][i][j]
            ELSE TimesOnePlus(hessians[s][i][i], lambdas[s])]]

\* cuda_modify_step_widths: the diagonal of every fit that is not finished
cuda_modify_step_widths(s) ==
    IF finished[s] = 1 THEN hessians[s]
    ELSE [i \in 1..n_parameters_to_fit |-> [j \in 1..n_parameters_to_fit |->
            IF i # j THEN hessians[s][i][j]
            ELSE LET undone == IF iteration_failed[s] = 1
                               THEN OverOnePlus(hessians[s][i][i], MulTenth(lambdas[s]))
                               ELSE hessians[s][i][i]
                 IN  TimesOnePlus(undone, lambdas[s])]]

(* ---------------- the solver (Gauss-Jordan, per fit) ------------------ *)

\* what one solve leaves for one fit: the singular flag and the delta vector
\* (a solve abandoned as singular leaves a delta that was not solved for;
\* with no free parameter there is no pivot column and nothing is flagged)
SolverOutputs ==
    LET
        \* the components a solve can leave in delta
        Deltas == {-1, 1}
    IN
    {[singular |-> 0, delta |-> [p \in 1..n_parameters_to_fit |-> d]] : d \in Deltas}
    \cup (IF n_parameters_to_fit > 0
          THEN {[singular |-> 1, delta |-> [p \in 1..n_parameters_to_fit |-> 1]]}
          ELSE {})

(* ------------------------------- Init --------------------------------- *)

\* Info::Info(): every counter of the object starts at zero. Memory sizes of
\* the object are held in units of sizeof(float) (4 bytes), see the planner.
InfoConstructed ==
    [n_parameters_ |-> 0, n_parameters_to_fit_ |-> 0, n_points_ |-> 0,
     power_of_two_n_points_ |-> 0, n_fits_ |-> 0, max_chunk_size_ |-> 0,
     n_fits_per_block_ |-> 0, use_weights_ |-> FALSE, max_threads_ |-> 0,
     max_blocks_ |-> 0, available_gpu_memory_ |-> 0,
     \* not a member: the argument of the last set_fits_per_block() call
     current_chunk_size |-> 0]

\* the state after the device buffers are set up; runs names the engine
\* runs that take place
\* the engine is idle: no block is in flight
NoBlock == [kernel |-> "none"]

InitFrom(runs, masks, estimators, budgets, fitinputs, infos, start, launches) ==
    LET
        \* tolerance = TolNum / TolDen, drawn from Tolerances
        Tolerances == {<<1, 2>>}
    IN
    /\ \E m \in masks : parameters_to_fit = m
    /\ estimator_id \in estimators
    /\ max_n_iterations \in budgets
    /\ tolerance \in Tolerances
    /\ \E in \in fitinputs :
        /\ data = [f \in Fits |-> [k \in Points |-> in[f].d]]
        /\ weights = [f \in Fits |-> [k \in Points |-> in[f].w]]
        /\ initial_parameters = [f \in Fits |-> in[f].p]
    /\ parameters = [s \in Slots |-> initial_parameters[InputOf(s)]]
    /\ prev_parameters = [s \in Slots |-> [j \in 1..n_parameters |-> 0]]
    /\ chi_squares = [s \in Slots |-> 0]
    /\ prev_chi_squares = [s \in Slots |-> 0]
    /\ lambdas = [s \in Slots |-> -3]
    /\ finished = [s \in Slots |-> 0]
    /\ iteration_failed = [s \in Slots |-> 0]
    /\ n_iterations = [s \in Slots |-> 0]
    /\ states = [s \in Slots |-> STATE_CONVERGED]
    /\ values = [s \in Slots |-> [k \in Points |-> 0]]
    /\ deltas = [s \in Slots |-> [p \in 1..n_parameters_to_fit |-> 0]]
    /\ singular_checks = [s \in Slots |-> 0]
    /\ gradients = [s \in Slots |-> [p \in 1..n_parameters_to_fit |-> 0]]
    /\ hessians = [s \in Slots |->
            [i \in 1..n_parameters_to_fit |->
                [j \in 1..n_parameters_to_fit |-> Undamped(0)]]]
    /\ all_finished = [r \in Runs |-> 0]
    /\ running = [r \in Runs |-> r \in runs]
    /\ iteration = 0
    /\ pc = start
    /\ info \in infos
    /\ block \in launches
    /\ min_chi = [s \in Slots |-> {}]
    /\ exit_path = [s \in Slots |-> "none"]
    /\ tol_failures = [s \in Slots |-> 0]
    /\ last_step = [s \in Slots |-> "none"]
    /\ accepted_chi = [s \in Slots |-> {}]

InitWith(runs) ==
    LET
        \* per-fit inputs: data value, weight, initial parameters
        FitInputs ==
            { [d |-> 0, w |-> 1, p |-> <<0, 0>>],
              [d |-> 1, w |-> 1, p |-> <<0, 0>>],
              [d |-> 3, w |-> 1, p |-> <<1, 0>>],
              [d |-> 3, w |-> -1, p |-> <<1, 0>>] }
        \* LINEAR_1D has two parameters; the masks of parameters_to_fit
        Masks == {<<1, 1>>, <<1, 0>>, <<0, 1>>, <<0, 0>>}
    IN
    InitFrom(runs, Masks, {LSE, MLE}, 1..MaxIterations, [Fits -> FitInputs],
             {InfoConstructed}, "calc_curve_values", {NoBlock})

\* one call on the whole chunk
Init == InitWith({"batch"})

\* one call with a long iteration budget: one fit whose chi-square can fall
\* in every iteration, the other fits exact from the start
InitLong ==
    InitFrom({"batch"}, {<<1, 0>>}, {LSE}, {LongBudget},
             {[f \in Fits |-> IF f = SoloFit
                              THEN [d |-> 3, w |-> -1, p |-> <<1, 0>>]
                              ELSE [d |-> 0, w |-> 1, p |-> <<0, 0>>]]},
             {InfoConstructed}, "calc_curve_values", {NoBlock})

\* the same call, and beside it fit SoloFit run alone
InitSolo == InitWith(Runs)

(* ------------------ the driver: one action per launch ----------------- *)

\* step 1: model evaluation
CalcCurveValues ==
    /\ pc = "calc_curve_values"
    /\ values' = [s \in Slots |-> IF Live(s) THEN cuda_calc_curve_values(s) ELSE values[s]]
    /\ pc' = "calc_chi_squares"
    /\ UNCHANGED <<block, info, equations, inputs, fitstate, deltas, singular_checks,
                   all_finished, running, iteration, history>>

\* step 2: chi-square
CalcChiSquares ==
    /\ pc = "calc_chi_squares"
    /\ chi_squares' = [s \in Slots |->
            IF Live(s) THEN cuda_calculate_chi_squares(s).chi_squares ELSE chi_squares[s]]
    /\ states' = [s \in Slots |->
            IF Live(s) THEN cuda_calculate_chi_squares(s).states ELSE states[s]]
    /\ iteration_failed' = [s \in Slots |->
            IF Live(s) THEN cuda_calculate_chi_squares(s).iteration_failed
            ELSE iteration_failed[s]]
    /\ min_chi' = [s \in Slots |->
            IF Live(s) /\ finished[s] = 0
            THEN {Min(m, chi_squares'[s]) : m \in min_chi[s]}
                 \cup (IF min_chi[s] = {} THEN {chi_squares'[s]} ELSE {})
            ELSE min_chi[s]]
    /\ pc' = "calc_gradients"
    /\ UNCHANGED <<block, info, equations, inputs, parameters, prev_parameters, prev_chi_squares,
                   lambdas,
                   finished, n_iterations, scratch, all_finished, running, iteration,
                   exit_path, tol_failures, last_step, accepted_chi>>

\* step 3: gradients
CalcGradients ==
    /\ pc = "calc_gradients"
    /\ gradients' = [s \in Slots |->
            IF Live(s) THEN cuda_calculate_gradients(s) ELSE gradients[s]]
    /\ pc' = "calc_hessians"
    /\ UNCHANGED <<block, info, hessians, inputs, fitstate, scratch, all_finished, running,
                   iteration, history>>

\* step 4: Hessians
CalcHessians ==
    /\ pc = "calc_hessians"
    /\ hessians' = [s \in Slots |->
            IF Live(s) THEN cuda_calculate_hessians(s) ELSE hessians[s]]
    /\ pc' = "modify_step_widths"
    /\ UNCHANGED <<block, info, gradients, inputs, fitstate, scratch, all_finished, running,
                   iteration, history>>

\* step 5: damping of the Hessian diagonal
ModifyStepWidths ==
    /\ pc = "modify_step_widths"
    /\ hessians' = [s \in Slots |->
            IF Live(s) THEN cuda_modify_step_widths(s) ELSE hessians[s]]
    /\ pc' = "solve_equation_system"
    /\ UNCHANGED <<block, info, gradients, inputs, fitstate, scratch, all_finished, running,
                   iteration, history>>

\* step 6: linear solve, for the fits that are not finished
SolveEquationSystem ==
    /\ pc = "solve_equation_system"
    /\ \E out \in [Fits -> SolverOutputs] :
        /\ deltas' = [s \in Slots |->
                IF Live(s) /\ finished[s] = 0 THEN out[InputOf(s)].delta ELSE deltas[s]]
        /\ singular_checks' = [s \in Slots |->
                IF Live(s) /\ finished[s] = 0 THEN out[InputOf(s)].singular
                ELSE singular_checks[s]]
    /\ pc' = "update_states"
    /\ UNCHANGED <<block, info, equations, inputs, fitstate, values, all_finished, running, iteration, history>>

\* step 7: singularity fan-out
UpdateStates ==
    /\ pc = "update_states"
    /\ states' = [s \in Slots |->
            IF Live(s) THEN cuda_update_state_after_gaussjordan(s) ELSE states[s]]
    /\ pc' = "update_parameters"
    /\ UNCHANGED <<block, info, equations, inputs, parameters, prev_parameters, chi_squares, prev_chi_squares,
                   lambdas, finished, iteration_failed, n_iterations, scratch,
                   all_finished, running, iteration, history>>

\* step 8: parameter update with snapshot
UpdateParameters ==
    LET
        HazardSlots(s) ==
            IF finished[s] = 1 THEN {}
            ELSE {j \in 1..n_parameters :
                    \E p \in 1..n_parameters_to_fit :
                        parameters_to_fit_indices[p] = j /\ p # j}
    IN
    /\ pc = "update_parameters"
    /\ \E early \in [Slots -> SUBSET (1..n_parameters)] :
        /\ \A s \in Slots : early[s] \subseteq (IF Live(s) THEN HazardSlots(s) ELSE {})
        /\ parameters' = [s \in Slots |->
                IF Live(s) THEN cuda_update_parameters(s, early[s]).parameters
                ELSE parameters[s]]
        /\ prev_parameters' = [s \in Slots |->
                IF Live(s) THEN cuda_update_parameters(s, early[s]).prev_parameters
                ELSE prev_parameters[s]]
    /\ pc' = "check_for_convergence"
    /\ UNCHANGED <<block, info, equations, inputs, chi_squares, prev_chi_squares, lambdas, finished,
                   iteration_failed, n_iterations, states, scratch,
                   all_finished, running, iteration, history>>

\* step 9: convergence check
CheckForConvergence ==
    /\ pc = "check_for_convergence"
    /\ finished' = [s \in Slots |->
            IF Live(s) THEN cuda_check_for_convergence(s).finished ELSE finished[s]]
    /\ states' = [s \in Slots |->
            IF Live(s) THEN cuda_check_for_convergence(s).states ELSE states[s]]
    /\ exit_path' = [s \in Slots |->
            IF finished[s] = 0 /\ finished'[s] = 1 THEN "tolerance" ELSE exit_path[s]]
    /\ tol_failures' = [s \in Slots |->
            IF Live(s) /\ finished[s] = 0 /\ ~fit_found(s)
            THEN tol_failures[s] + 1 ELSE tol_failures[s]]
    /\ pc' = "evaluate_iteration"
    /\ UNCHANGED <<block, info, equations, inputs, parameters, prev_parameters, chi_squares, prev_chi_squares,
                   lambdas, iteration_failed, n_iterations, scratch,
                   all_finished, running, iteration, min_chi, last_step, accepted_chi>>

\* step 10: bookkeeping; the driver sets all_finished to 1 before the launch
EvaluateIteration ==
    LET
        \* the orders in which the threads of the fits in S can reach that store
        Orders(S) ==
            {o \in [1..Cardinality(S) -> S] : \A i, j \in 1..Cardinality(S) : o[i] = o[j] => i = j}
    IN
    /\ pc = "evaluate_iteration"
    /\ finished' = [s \in Slots |->
            IF Live(s) THEN cuda_evaluate_iteration(s).finished ELSE finished[s]]
    /\ n_iterations' = [s \in Slots |->
            IF Live(s) THEN cuda_evaluate_iteration(s).n_iterations ELSE n_iterations[s]]
    /\ \E o \in [Runs -> UNION {Orders(SlotsOf(r)) : r \in Runs}] :
        /\ \A r \in Runs : o[r] \in Orders(SlotsOf(r))
        \* the driver sets the flag to 1, then the threads store in some order
        /\ all_finished' = [r \in Runs |->
                IF running[r] THEN all_finished_after(o[r], 1, finished', 1)
                ELSE all_finished[r]]
    /\ exit_path' = [s \in Slots |->
            IF finished[s] = 0 /\ finished'[s] = 1 THEN "state" ELSE exit_path[s]]
    /\ pc' = "prepare_next_iteration"
    /\ UNCHANGED <<block, info, equations, inputs, parameters, prev_parameters, chi_squares, prev_chi_squares,
                   lambdas, iteration_failed, states, scratch, running, iteration,
                   min_chi, tol_failures, last_step, accepted_chi>>

\* step 11: next-iteration prep
PrepareNextIteration ==
    /\ pc = "prepare_next_iteration"
    /\ lambdas' = [s \in Slots |->
            IF Live(s) THEN cuda_prepare_next_iteration(s).lambdas ELSE lambdas[s]]
    /\ chi_squares' = [s \in Slots |->
            IF Live(s) THEN cuda_prepare_next_iteration(s).chi_squares ELSE chi_squares[s]]
    /\ prev_chi_squares' = [s \in Slots |->
            IF Live(s) THEN cuda_prepare_next_iteration(s).prev_chi_squares
            ELSE prev_chi_squares[s]]
    /\ parameters' = [s \in Slots |->
            IF Live(s) THEN cuda_prepare_next_iteration(s).parameters ELSE parameters[s]]
    /\ last_step' = [s \in Slots |->
            IF Live(s) /\ n_iterations[s] \in {0, iteration + 1}
            THEN (IF chi_squares[s] < prev_chi_squares[s] THEN "accepted" ELSE "rejected")
            ELSE last_step[s]]
    /\ accepted_chi' = [s \in Slots |->
            IF Live(s) /\ chi_squares[s] < prev_chi_squares[s]
            THEN accepted_chi[s] \cup {chi_squares[s]}
            ELSE accepted_chi[s]]
    /\ pc' = "loop"
    /\ UNCHANGED <<block, info, equations, inputs, prev_parameters, finished, iteration_failed, n_iterations,
                   states, scratch, all_finished, running, iteration,
                   min_chi, exit_path, tol_failures>>

\* step 12 and the loop head: leave when all_finished or the budget is used
NextIteration ==
    /\ pc = "loop"
    /\ running' = [r \in Runs |->
            running[r] /\ all_finished[r] = 0 /\ iteration + 1 < max_n_iterations]
    /\ iteration' = IF \E r \in Runs : running'[r] THEN iteration + 1 ELSE iteration
    /\ pc' = IF \E r \in Runs : running'[r] THEN "calc_curve_values" ELSE "done"
    /\ UNCHANGED <<block, info, equations, inputs, fitstate, scratch, all_finished, history>>

Next ==
    \/ CalcCurveValues
    \/ CalcChiSquares
    \/ CalcGradients
    \/ CalcHessians
    \/ ModifyStepWidths
    \/ SolveEquationSystem
    \/ UpdateStates
    \/ UpdateParameters
    \/ CheckForConvergence
    \/ EvaluateIteration
    \/ PrepareNextIteration
    \/ NextIteration

Spec == Init /\ [][Next]_vars

SpecSolo == InitSolo /\ [][Next]_vars

SpecLong == InitLong /\ [][Next]_vars

(* ------------------------- the planner (Info) ------------------------- *)

\* Sizes in bytes are held in units of sizeof(float) = sizeof(int) = 4 bytes
\* wherever the byte count can exceed 2^31 - 1: the footprint formula is a
\* multiple of 4, and a quotient of byte counts equals the quotient of the
\* counts in these units.

\* the largest value of the 32-bit int fields of Info
IntMax == 2147483647

\* 2^32 bytes in units of sizeof(float)
TwoTo30 == 1073741824

PlannerMemory == {0, 11, 12, 1000, 5000000, IntMax}
PlannerBlocks == {1, 105, 37421, 65535, IntMax}
PlannerThreads == {512, 1024}

\* the Info object when configure() is called: the interface has set the
\* sizes of the call
PlannerInfos ==
    LET
        \* the values a call and a device can give to the planner
        PlannerPoints == {1, 5, 100, 134217728, 1073741825}
        PlannerParameters == {1, 2, 5}
        PlannerFits == {1, 8, 12, 25, 100000}
    IN
    {[InfoConstructed EXCEPT !.n_points_ = np, !.n_parameters_ = n,
                             !.n_parameters_to_fit_ = nf, !.n_fits_ = f,
                             !.use_weights_ = w] :
        np \in PlannerPoints, f \in PlannerFits, w \in BOOLEAN,
        <<n, nf>> \in {x \in PlannerParameters \X {0, 1, 2, 5} : x[2] <= x[1]}}

\* configure(): the loop that doubles power_of_two_n_points_ (an int) while
\* it is below n_points_; overflow tells that the next doubling leaves int
RECURSIVE power_of_two_loop(_, _)
power_of_two_loop(p, n) ==
    IF p < n
    THEN IF p > IntMax \div 2
         THEN [overflow |-> TRUE, value |-> p]
         ELSE power_of_two_loop(p * 2, n)
    ELSE [overflow |-> FALSE, value |-> p]

\* the one-fit footprint of the formula, in units of sizeof(float)
OneFitWords(i) ==
    2 * i.n_points_ + 2 * i.n_parameters_ + 2 * i.n_parameters_to_fit_
    + i.n_parameters_to_fit_ * i.n_parameters_to_fit_
    + i.n_points_ * i.n_parameters_ + 4 + 3
    + (IF i.use_weights_ THEN i.n_points_ ELSE 0)

\* int one_fit_memory, in bytes: the size_t sum converted to a 32-bit int,
\* which keeps it modulo 2^32
one_fit_memory(i) ==
    LET r == OneFitWords(i) % TwoTo30
    IN  IF r < TwoTo30 \div 2 THEN 4 * r ELSE 4 * (r - TwoTo30)

\* available_gpu_memory_ / one_fit_memory for one_fit_memory # 0: the int
\* is converted to size_t, a negative one to a value above every memory size
tmp_chunk_size(i) ==
    IF one_fit_memory(i) < 0
    THEN 0
    ELSE i.available_gpu_memory_ \div (one_fit_memory(i) \div 4)

\* n_points_ * n_parameters_to_fit_ * n_parameters_to_fit_ is computed in
\* int: TRUE when the product leaves int
highest_factor_overflows(i) ==
    /\ i.n_parameters_to_fit_ # 0
    /\ i.n_points_ >
           IntMax \div (i.n_parameters_to_fit_ * i.n_parameters_to_fit_)

\* highest_size_t_value / highest_factor, as far as a chunk size of the
\* model can reach it: size_t has 64 bits and highest_factor is below 2^33,
\* so the quotient is above 2^31 - 1, and no chunk size here is above IntMax
highest_size_t_value_over_highest_factor(i) == IntMax

\* the loop that finds the power of ten to round to
RECURSIVE rounding_factor(_, _)
rounding_factor(tmp, i) ==
    IF tmp > 10 THEN rounding_factor(tmp \div 10, i * 10) ELSE i

\* faulty variant: the number of fits limits the size before the rounding
max_chunk_size_RoundedLast(tmp, n_fits) ==
    LET t == Min(tmp, n_fits)
    IN  (t \div rounding_factor(t, 1)) * rounding_factor(t, 1)

\* the published size: round down, then limit by the number of fits
max_chunk_size(tmp, n_fits) ==
    Min((tmp \div rounding_factor(tmp, 1)) * rounding_factor(tmp, 1), n_fits)

\* set_max_chunk_size(): the outcome and the Info object it leaves
set_max_chunk_size(i) ==
    IF one_fit_memory(i) = 0
    THEN [outcome |-> "undefined", info |-> i]
    ELSE IF tmp_chunk_size(i) = 0
    THEN [outcome |-> "throw", info |-> i]
    ELSE IF highest_factor_overflows(i)
    THEN [outcome |-> "undefined", info |-> i]
    ELSE LET limited == Min(tmp_chunk_size(i), i.max_blocks_)
             tmp == IF limited > highest_size_t_value_over_highest_factor(i)
                    THEN highest_size_t_value_over_highest_factor(i)
                    ELSE limited
         IN  [outcome |-> "ok",
              info |-> [i EXCEPT !.max_chunk_size_ =
                                     max_chunk_size(tmp, i.n_fits_)]]

\* the do-while loop of set_fits_per_block(): halve, test, repeat
RECURSIVE fits_per_block_loop(_, _, _)
fits_per_block_loop(n, i, current_chunk_size) ==
    LET halved == n \div 2
        is_divisible == current_chunk_size % halved = 0
        enough_threads == halved * i.n_points_ < i.max_threads_ \div 4
    IN  IF (~is_divisible \/ ~enough_threads) /\ halved > 1
        THEN fits_per_block_loop(halved, i, current_chunk_size)
        ELSE halved

\* faulty variant: the loop tests enough_threads only
RECURSIVE fits_per_block_loop_Undivided(_, _)
fits_per_block_loop_Undivided(n, i) ==
    LET halved == n \div 2
        enough_threads == halved * i.n_points_ < i.max_threads_ \div 4
    IN  IF ~enough_threads /\ halved > 1
        THEN fits_per_block_loop_Undivided(halved, i)
        ELSE halved

set_fits_per_block_Undivided(i, current_chunk_size) ==
    fits_per_block_loop_Undivided(8, i)

set_fits_per_block(i, current_chunk_size) ==
    fits_per_block_loop(8, i, current_chunk_size)

\* the sizes of the chunks the driver cuts the call into
ChunkSizes(i) ==
    {i.max_chunk_size_} \cup ({i.n_fits_ % i.max_chunk_size_} \ {0})

\* configure(): the power of two, the device properties, the chunk size. A
\* doubling that leaves int is undefined: the loop goes on for ever on the
\* wrapped value, or the build traps
Configure ==
    /\ pc = "configure"
    /\ \E threads \in PlannerThreads, blocks \in PlannerBlocks,
          memory \in PlannerMemory :
        LET loop == power_of_two_loop(1, info.n_points_)
            device == [info EXCEPT !.power_of_two_n_points_ = loop.value,
                                   !.max_threads_ = threads,
                                   !.max_blocks_ = blocks,
                                   !.available_gpu_memory_ = memory]
        IN  IF loop.overflow
            THEN \/ /\ pc' = "hung"
                    /\ info' = [info EXCEPT !.power_of_two_n_points_ = 0]
                 \/ /\ pc' = "aborted"
                    /\ info' = [info EXCEPT
                                   !.power_of_two_n_points_ = loop.value]
            ELSE /\ info' = set_max_chunk_size(device).info
                 /\ pc' = CASE set_max_chunk_size(device).outcome = "ok"
                                  -> "set_fits_per_block"
                            [] set_max_chunk_size(device).outcome = "throw"
                                  -> "error"
                            [] OTHER -> "aborted"
    /\ UNCHANGED <<block, equations, inputs, fitstate, scratch, all_finished, running, iteration,
                   history>>

\* the driver plans the blocks of one chunk
SetFitsPerBlock ==
    /\ pc = "set_fits_per_block"
    /\ \E current_chunk_size \in ChunkSizes(info) :
        info' = [info EXCEPT
                    !.current_chunk_size = current_chunk_size,
                    !.n_fits_per_block_ =
                        set_fits_per_block(info, current_chunk_size)]
    /\ pc' = "planned"
    /\ UNCHANGED <<block, equations, inputs, fitstate, scratch, all_finished, running, iteration,
                   history>>

InitPlanner ==
    InitFrom({"batch"}, {<<1, 0>>}, {LSE}, {1},
             {[f \in Fits |-> [d |-> 0, w |-> 1, p |-> <<0, 0>>]]},
             PlannerInfos, "configure", {NoBlock})

NextPlanner ==
    \/ Configure
    \/ SetFitsPerBlock

SpecPlanner == InitPlanner /\ [][NextPlanner]_vars

(* --------- one thread block of a reduction kernel, thread by thread ----- *)
(* The launch of cuda_calculate_chi_squares or cuda_calculate_gradients on   *)
(* one block, held in the record block. Thread tid works on fit              *)
(* tid / shared_size of the block, at slot tid % shared_size of that fit's   *)
(* part of the shared array. A float in the shared array or in an output is  *)
(* the bag of the summands added into it: the summand of point k for the     *)
(* parameter of round p of fit f is one element, 0.f is the empty bag, and   *)
(* a slot never written holds a token of its own.                            *)

\* the kernels with a tree reduction
ReductionKernels == {"cuda_calculate_chi_squares", "cuda_calculate_gradients"}

Uninitialized(f, t) == SetToBag({<<"uninitialized", f, 0, t>>})
\* faulty variant: the pad slots are left as they were
PadValue_NotFilled(f, t) == Uninitialized(f, t)
\* shared[point_index] = 0.f
PadValue(f, t) == EmptyBag

\* the sum of the n summands of round p of fit f
SumOfPoints(f, p, n) == SetToBag({<<"summand", f, p, k>> : k \in 0..(n - 1)})

BlockThreads(b) == 0..(b.n_fits_per_block * b.shared_size - 1)
fit_in_block(b, tid) == tid \div b.shared_size
point_index(b, tid) == tid % b.shared_size

\* the rounds of the kernel: one reduction, or one for every free parameter
Rounds(b) == IF b.kernel = "cuda_calculate_chi_squares" THEN 1 ELSE b.n_parameters_to_fit

\* the early return of a thread
ReturnsEarly(b, f) ==
    IF b.kernel = "cuda_calculate_chi_squares" THEN b.flags[f].finished = 1
    ELSE b.flags[f].finished = 1 \/ b.flags[f].skip = 1

\* the output location a thread of fit f stores to after round p
OutputOf(b, f, p) ==
    IF b.kernel = "cuda_calculate_chi_squares" THEN <<"chi_squares", f, 0>>
    ELSE <<"gradients", f, p>>

BlockOutputs(b) ==
    {OutputOf(b, f, p) : f \in 0..(b.n_fits_per_block - 1), p \in 0..(Rounds(b) - 1)}

\* the block as launched
Launched(kernel, shape, npf, flags, exited_arrive) ==
    LET
        \* an output location not stored to in this launch
        Unwritten(f, p) == SetToBag({<<"unwritten", f, p, 0>>})
    IN
    LET size == power_of_two_loop(1, shape[2]).value
        b0 == [kernel |-> kernel, n_fits_per_block |-> shape[1], n_points |-> shape[2],
               shared_size |-> size, n_parameters_to_fit |-> npf, flags |-> flags,
               exited_arrive |-> exited_arrive]
    IN  [kernel |-> kernel, n_fits_per_block |-> shape[1], n_points |-> shape[2],
         shared_size |-> size, n_parameters_to_fit |-> npf, flags |-> flags,
         exited_arrive |-> exited_arrive,
         at |-> [tid \in BlockThreads(b0) |-> "start"],
         round |-> [tid \in BlockThreads(b0) |-> 0],
         current_n_points |-> [tid \in BlockThreads(b0) |-> 0],
         shared |-> [f \in 0..(shape[1] - 1) |->
                        [t \in 0..(size - 1) |-> Uninitialized(f, t)]],
         out |-> [l \in BlockOutputs(b0) |-> Unwritten(l[2], l[3])],
         writers |-> [l \in BlockOutputs(b0) |-> {}]]

Launches ==
    LET
        \* n_fits_per_block and n_points of a launch
        BlockShapes == {<<1, 1>>, <<1, 2>>, <<1, 3>>, <<2, 1>>, <<2, 2>>}
        \* n_parameters_to_fit of a launch
        BlockParameters == {1, 2}
        \* finished and skip (iteration_failed) of one fit
        BlockFlags == {[finished |-> 0, skip |-> 0], [finished |-> 1, skip |-> 0],
                       [finished |-> 0, skip |-> 1]}
    IN
    UNION {{Launched(k, sh, npf, fl, ea) :
                k \in ReductionKernels, npf \in BlockParameters,
                fl \in [0..(sh[1] - 1) -> BlockFlags], ea \in BOOLEAN} :
           sh \in BlockShapes}

\* if (finished[fit_index] || skip[fit_index]) return;
thread_start(b, tid) ==
    [b EXCEPT !.at[tid] = IF ReturnsEarly(b, fit_in_block(b, tid)) THEN "returned" ELSE "pad"]

\* if (point_index >= n_points) shared[point_index] = 0.f;
thread_pad(b, tid) ==
    LET f == fit_in_block(b, tid)  t == point_index(b, tid)
    IN  [b EXCEPT !.at[tid] = "summand",
                  !.shared[f][t] = IF t >= b.n_points THEN PadValue(f, t) ELSE @]

\* if (point_index < n_points) the summand of the round goes to the slot;
\* sum_up_floats then sets current_n_points = size >> 1 and meets the barrier
thread_summand(b, tid) ==
    LET
        Summand(f, p, k) == SetToBag({<<"summand", f, p, k>>})
    IN
    LET f == fit_in_block(b, tid)  t == point_index(b, tid)
    IN  [b EXCEPT !.at[tid] = "barrier",
                  !.current_n_points[tid] = b.shared_size \div 2,
                  !.shared[f][t] = IF t < b.n_points THEN Summand(f, b.round[tid], t) ELSE @]

\* the body of the while loop of sum_up_floats, up to its barrier
thread_reduce(b, tid) ==
    LET f == fit_in_block(b, tid)  t == point_index(b, tid)
        c == b.current_n_points[tid]
    IN  [b EXCEPT !.at[tid] = "barrier",
                  !.current_n_points[tid] = c \div 2,
                  !.shared[f][t] = IF t < c THEN @ (+) b.shared[f][t + c] ELSE @]

\* the store of shared[0] after sum_up_floats, and the end of the round
thread_store(b, tid) ==
    LET f == fit_in_block(b, tid)
        l == OutputOf(b, f, b.round[tid])
    IN  [b EXCEPT !.out[l] = b.shared[f][0],
                  !.writers[l] = @ \cup {tid},
                  !.round[tid] = @ + 1,
                  !.at[tid] = IF b.round[tid] + 1 < Rounds(b) THEN "summand" ELSE "done"]

\* __syncthreads(): the threads the barrier waits for. Threads that have
\* returned are taken as arrived or are waited for: the behaviour of a
\* barrier that not every thread of the block reaches is undefined.
AwaitedAtBarrier(b) ==
    IF b.exited_arrive THEN {tid \in BlockThreads(b) : b.at[tid] # "returned"}
    ELSE BlockThreads(b)

\* the barrier opens: every thread goes on in sum_up_floats
barrier_release(b) ==
    [b EXCEPT !.at = [tid \in BlockThreads(b) |->
                        IF b.at[tid] # "barrier" THEN b.at[tid]
                        ELSE IF b.current_n_points[tid] # 0 THEN "reduce" ELSE "store"]]

InFlight == pc = "launch" /\ block.kernel \in ReductionKernels

ThreadStart ==
    /\ InFlight
    /\ \E tid \in BlockThreads(block) :
        block.at[tid] = "start" /\ block' = thread_start(block, tid)
    /\ UNCHANGED <<info, equations, inputs, fitstate, scratch, driver, history>>

ThreadPad ==
    /\ InFlight
    /\ \E tid \in BlockThreads(block) :
        block.at[tid] = "pad" /\ block' = thread_pad(block, tid)
    /\ UNCHANGED <<info, equations, inputs, fitstate, scratch, driver, history>>

ThreadSummand ==
    /\ InFlight
    /\ \E tid \in BlockThreads(block) :
        block.at[tid] = "summand" /\ block' = thread_summand(block, tid)
    /\ UNCHANGED <<info, equations, inputs, fitstate, scratch, driver, history>>

ThreadReduce ==
    /\ InFlight
    /\ \E tid \in BlockThreads(block) :
        block.at[tid] = "reduce" /\ block' = thread_reduce(block, tid)
    /\ UNCHANGED <<info, equations, inputs, fitstate, scratch, driver, history>>

ThreadStore ==
    /\ InFlight
    /\ \E tid \in BlockThreads(block) :
        block.at[tid] = "store" /\ block' = thread_store(block, tid)
    /\ UNCHANGED <<info, equations, inputs, fitstate, scratch, driver, history>>

BarrierRelease ==
    /\ InFlight
    /\ \E tid \in BlockThreads(block) : block.at[tid] = "barrier"
    /\ \A tid \in AwaitedAtBarrier(block) : block.at[tid] = "barrier"
    /\ block' = barrier_release(block)
    /\ UNCHANGED <<info, equations, inputs, fitstate, scratch, driver, history>>

InitThreads ==
    InitFrom({"batch"}, {<<1, 0>>}, {LSE}, {1},
             {[f \in Fits |-> [d |-> 0, w |-> 1, p |-> <<0, 0>>]]},
             {InfoConstructed}, "launch", Launches)

NextThreads ==
    \/ ThreadStart
    \/ ThreadPad
    \/ ThreadSummand
    \/ ThreadReduce
    \/ ThreadStore
    \/ BarrierRelease

SpecThreads == InitThreads /\ [][NextThreads]_vars

(* ------------------------------ outputs ------------------------------- *)

Done == pc = "done"
BatchSlots == SlotsOf("batch")

\* the chi-square the model evaluation and the chi-square step give at p
ChiSquareAt(s, p) == ChiSquareFrom(InputOf(s), calculate_linear1d(p))

\* fit s finished in an iteration before the current one
FinishedEarlier(s) == n_iterations[s] # 0 /\ n_iterations[s] <= iteration

(* ------------------------------- claims ------------------------------- *)

\* C1 (as stated): once finished[s] is true, no later kernel step changes
\* parameters[s], chi_squares[s] or states[s], nor n_iterations[s] once it
\* has been recorded.
C1_Original ==
    [][\A s \in Slots :
        finished[s] = 1 =>
            /\ parameters'[s] = parameters[s]
            /\ chi_squares'[s] = chi_squares[s]
            /\ states'[s] = states[s]
            /\ (n_iterations[s] # 0 => n_iterations'[s] = n_iterations[s])]_vars

\* C1 (amended): once finished[s] is true, states[s] and the recorded
\* n_iterations[s] never change, and parameters[s] and chi_squares[s] are
\* changed by no step other than the next-iteration prep of the iteration in
\* which the fit finished; in every later iteration all four keep their values.
C1_FrozenAfterFinishingIteration ==
    [][\A s \in Slots :
        finished[s] = 1 =>
            /\ states'[s] = states[s]
            /\ (n_iterations[s] # 0 => n_iterations'[s] = n_iterations[s])
            /\ (pc # "prepare_next_iteration" \/ FinishedEarlier(s)) =>
                    /\ parameters'[s] = parameters[s]
                    /\ chi_squares'[s] = chi_squares[s]]_vars

\* C1 witness: a fit that finished in an earlier iteration has gone through
\* the prep of a later iteration run for a live sibling, and its own
\* finishing iteration had rolled it back.
C1_Witness ==
    /\ pc = "loop"
    /\ \E s \in BatchSlots :
        /\ FinishedEarlier(s)
        /\ lambdas[s] >= -1
        /\ \E t \in BatchSlots : finished[t] = 0

\* C2: the loop runs at most max_n_iterations iterations; in the last
\* iteration a live fit that fails the tolerance test has state
\* MAX_ITERATION after the convergence check and is finished after the
\* bookkeeping step; when the loop has stopped every fit is finished.
C2_LoopEndsWithAllFinished ==
    /\ iteration < max_n_iterations
    /\ (pc = "evaluate_iteration" /\ iteration = max_n_iterations - 1) =>
            \A s \in BatchSlots : finished[s] = 0 => states[s] = STATE_MAX_ITERATION
    /\ (pc = "prepare_next_iteration" /\ iteration = max_n_iterations - 1) =>
            \A s \in BatchSlots : finished[s] = 1
    /\ Done => \A s \in BatchSlots : finished[s] = 1

\* C2 witness: the loop stopped after the whole budget of at least two
\* iterations, with a fit that ran out of iterations.
C2_Witness ==
    /\ Done
    /\ max_n_iterations >= 2
    /\ iteration = max_n_iterations - 1
    /\ \E s \in BatchSlots : states[s] = STATE_MAX_ITERATION /\ finished[s] = 1

\* C3: at exit every state is one of 0..4 and 1 <= n_iterations <= max_n_iterations.
C3_OutputRanges ==
    Done => \A s \in BatchSlots :
        /\ states[s] \in STATE_CONVERGED..STATE_GPU_NOT_READY
        /\ 1 <= n_iterations[s]
        /\ n_iterations[s] <= max_n_iterations

\* C3 witness: a call that ended with one fit finished in the first iteration
\* and another in the last of at least two.
C3_Witness ==
    /\ Done
    /\ max_n_iterations >= 2
    /\ \E s, t \in BatchSlots : n_iterations[s] = 1 /\ n_iterations[t] = max_n_iterations

\* C4 (as stated): at exit states[s] = CONVERGED if and only if the fit was
\* finished by the tolerance test.
C4_Original ==
    Done => \A s \in BatchSlots :
        states[s] = STATE_CONVERGED <=> exit_path[s] = "tolerance"

\* C4 (amended): at exit a fit with state CONVERGED was finished by the
\* tolerance test, and a fit finished by any other path has a non-zero state;
\* a fit finished by the tolerance test has state CONVERGED unless the
\* chi-square step or the singularity fan-out of that same iteration had
\* given it NEG_CURVATURE_MLE or SINGULAR_HESSIAN, which it then keeps.
C4_ConvergedOnlyByTolerance ==
    Done => \A s \in BatchSlots :
        /\ states[s] = STATE_CONVERGED => exit_path[s] = "tolerance"
        /\ exit_path[s] = "state" => states[s] # STATE_CONVERGED
        /\ exit_path[s] = "tolerance" =>
                states[s] \in {STATE_CONVERGED, STATE_SINGULAR_HESSIAN,
                               STATE_NEG_CURVATURE_MLE}

\* C4 witness: at exit one fit passed the tolerance test with a singular
\* solve in the same iteration, and another left by its state alone.
C4_Witness ==
    /\ Done
    /\ \E s, t \in BatchSlots :
        /\ exit_path[s] = "tolerance" /\ states[s] = STATE_SINGULAR_HESSIAN
        /\ exit_path[t] = "state"

C6_FixedParametersKept ==
    \A s \in Slots : \A q \in 1..n_parameters :
        parameters_to_fit[q] = 0 =>
            parameters[s][q] = initial_parameters[InputOf(s)][q]

\* C6 witness: with one fixed and one free parameter, a fit has had a step
\* accepted and a later one rolled back, its free parameter has moved and
\* its fixed parameter holds a non-zero initial value.
C6_Witness ==
    /\ Done
    /\ \E s \in BatchSlots : \E q, r \in 1..n_parameters :
        /\ parameters_to_fit[q] = 0
        /\ parameters_to_fit[r] = 1
        /\ initial_parameters[InputOf(s)][q] # 0
        /\ parameters[s][r] # initial_parameters[InputOf(s)][r]
        /\ prev_chi_squares[s] # 0
        /\ last_step[s] = "rejected"

C8_ParametersMatchChiSquare ==
    Done => \A s \in BatchSlots :
        (states[s] = STATE_CONVERGED \/ last_step[s] = "rejected") =>
            ChiSquareAt(s, parameters[s]) = chi_squares[s]

\* C9: after next-iteration prep has rejected a step, the restored
\* parameters are the ones whose model evaluation gave prev_chi_squares.
C9_RollbackToLowerChiSquare ==
    \A s \in BatchSlots :
        (pc = "loop" /\ last_step[s] = "rejected" /\ ~FinishedEarlier(s)) =>
            ChiSquareAt(s, parameters[s]) = prev_chi_squares[s]

\* C10: state MAX_ITERATION appears only in the last iteration, for a fit
\* that failed the tolerance test in every iteration, and such a fit has
\* n_iterations = max_n_iterations at exit; next-iteration prep (acceptance
\* or rejection) changes neither states nor finished.
C10_MaxIterationOnlyAtBudget ==
    \A s \in BatchSlots :
        /\ states[s] = STATE_MAX_ITERATION =>
                /\ iteration = max_n_iterations - 1
                /\ tol_failures[s] = max_n_iterations
                /\ n_iterations[s] \in {0, max_n_iterations}
                /\ Done => n_iterations[s] = max_n_iterations
        /\ (pc = "loop" /\ iteration < max_n_iterations - 1 /\ finished[s] = 0) =>
                states[s] = STATE_CONVERGED
        /\ (finished[s] = 1 /\ pc # "evaluate_iteration") =>
                (states[s] # STATE_CONVERGED \/ exit_path[s] = "tolerance")

\* C10 witness: a fit whose steps were rejected in earlier iterations stayed
\* live and ended with MAX_ITERATION after the whole budget of two or more.
C10_Witness ==
    /\ Done
    /\ max_n_iterations >= 2
    /\ \E s \in BatchSlots :
        /\ states[s] = STATE_MAX_ITERATION
        /\ n_iterations[s] = max_n_iterations
        /\ lambdas[s] >= -1

\* C11: with an all-zero parameters_to_fit mask every fit ends after exactly
\* one iteration, in state CONVERGED, with its initial parameters.
C11_AllZeroMaskOneIteration ==
    (Done /\ n_parameters_to_fit = 0) =>
        \A s \in BatchSlots :
            /\ n_iterations[s] = 1
            /\ states[s] = STATE_CONVERGED
            /\ parameters[s] = initial_parameters[InputOf(s)]

\* C12: lambda is strictly positive in every reachable state, for live and
\* for finished fits and for any number of iterations.
C12_LambdaPositive ==
    \A s \in BatchSlots : lambdas[s] # LambdaZero

\* the chi-square the first evaluation of a fit computes
FirstChiSquare(s) == ChiSquareAt(s, initial_parameters[InputOf(s)])

\* C13 (as stated): a fit whose first chi-square is zero ends with
\* n_iterations = 1, state CONVERGED and chi-square 0.
C13_Original ==
    Done => \A s \in BatchSlots :
        FirstChiSquare(s) = 0 =>
            /\ n_iterations[s] = 1
            /\ states[s] = STATE_CONVERGED
            /\ chi_squares[s] = 0

\* C13 (amended): a fit whose first chi-square is zero is finished by the
\* tolerance test of iteration 0 and ends with n_iterations = 1 and
\* chi-square 0; its state is CONVERGED unless the chi-square step (MLE,
\* non-positive value) or the singularity fan-out of iteration 0 gave it
\* NEG_CURVATURE_MLE or SINGULAR_HESSIAN.
C13_ExactFitOneIteration ==
    LET
        \* the chi-square step of the finishing iteration saw a non-positive value
        \* under MLE (the values of a finished fit are not evaluated again)
        SawNonPositiveMLE(s) == estimator_id = MLE /\ \E k \in Points : values[s][k] <= 0
    IN
    \A s \in BatchSlots :
        FirstChiSquare(s) = 0 =>
            /\ (iteration > 0 \/ pc \in {"evaluate_iteration", "prepare_next_iteration",
                                         "loop", "done"})
                    => finished[s] = 1 /\ exit_path[s] = "tolerance"
            /\ n_iterations[s] \in {0, 1}
            /\ Done =>
                    /\ n_iterations[s] = 1
                    /\ chi_squares[s] = 0
                    /\ states[s] \in {STATE_CONVERGED, STATE_SINGULAR_HESSIAN,
                                      STATE_NEG_CURVATURE_MLE}
                    /\ (singular_checks[s] = 0 /\ ~SawNonPositiveMLE(s))
                            => states[s] = STATE_CONVERGED

\* C13 witness: a fit with first chi-square zero ended CONVERGED after one
\* iteration while a sibling needed more.
C13_Witness ==
    /\ Done
    /\ \E s, t \in BatchSlots :
        /\ FirstChiSquare(s) = 0
        /\ states[s] = STATE_CONVERGED
        /\ n_iterations[s] = 1
        /\ n_iterations[t] >= 2

(* --------------------------- planner claims --------------------------- *)

\* configure() has returned or thrown
PlanningOver == pc \in {"error", "set_fits_per_block", "planned"}

\* C14: planning fails with the not-enough-memory error exactly when
\* available_memory / one_fit_footprint is 0; when it fails the chunk size
\* keeps its previous value and no iteration is run.
C14_NotEnoughMemory ==
    PlanningOver =>
        /\ (pc = "error") <=>
               (info.available_gpu_memory_ \div OneFitWords(info) = 0)
        /\ pc = "error" =>
               /\ info.max_chunk_size_ = InfoConstructed.max_chunk_size_
               /\ iteration = 0
               /\ \A s \in Slots : n_iterations[s] = 0

\* configure() has returned with a chunk size
Planned == pc \in {"set_fits_per_block", "planned"}

\* x rounded down to a multiple of the largest power of ten not above x
RoundDown(x) ==
    LET
        PowersOfTen ==
            {1, 10, 100, 1000, 10000, 100000, 1000000, 10000000, 100000000,
             1000000000}
    IN
    LET p == CHOOSE q \in PowersOfTen : q <= x /\ x \div 10 < q
    IN  (x \div p) * p

\* the least of the three limits that do not depend on the call
DeviceLimit(i) ==
    Min(Min(tmp_chunk_size(i), i.max_blocks_),
        highest_size_t_value_over_highest_factor(i))

C16_FirstOfEightFourTwoOne ==
    LET
        \* n fits per block suit the chunk: they divide it and leave enough threads
        SuitsChunk(n, i) ==
            /\ i.current_chunk_size % n = 0
            /\ n * i.n_points_ < i.max_threads_ \div 4
    IN
    pc = "planned" =>
        info.n_fits_per_block_ =
            IF SuitsChunk(8, info) THEN 8
            ELSE IF SuitsChunk(4, info) THEN 4
            ELSE IF SuitsChunk(2, info) THEN 2
            ELSE 1

\* C17: for every n_points >= 1 configure() comes to an end and leaves
\* power_of_two_n_points the smallest power of two that is at least n_points.
C17_SmallestPowerOfTwo ==
    LET
        \* the powers of two an int can hold
        PowersOfTwo == {2 ^ k : k \in 0..30}
    IN
    pc # "configure" =>
        /\ pc # "hung"
        /\ info.power_of_two_n_points_ \in PowersOfTwo
        /\ info.power_of_two_n_points_ >= info.n_points_
        /\ info.power_of_two_n_points_ \div 2 < info.n_points_

\* C18: for all sizes of the call the one-fit footprint held in the 32-bit
\* int is the value of the formula, without wrap-around, and is strictly
\* positive (the formula's value is 4 * OneFitWords bytes).
C18_FootprintExact ==
    PlanningOver =>
        /\ one_fit_memory(info) > 0
        /\ one_fit_memory(info) % 4 = 0
        /\ one_fit_memory(info) \div 4 = OneFitWords(info)

(* ------------------- convergence check and prep claims ---------------- *)

\* |chi_square - prev_chi_square| < tolerance * max(1, chi_square)
WithinTolerance(s) ==
    IF chi_squares[s] >= ChiOne
    THEN Abs(chi_squares[s] - prev_chi_squares[s]) * tolerance[2]
             < tolerance[1] * chi_squares[s]
    ELSE Abs(chi_squares[s] - prev_chi_squares[s]) * tolerance[2]
             < tolerance[1] * ChiOne

\* C19: the convergence check marks a live fit finished, its state
\* unchanged, exactly when it is within tolerance; a live fit that is not
\* gets state MAX_ITERATION exactly when iteration = max_n_iterations - 1 and
\* stays unfinished; a finished fit is left as it is.
C19_ConvergenceCheck ==
    [][pc = "check_for_convergence" =>
        \A s \in BatchSlots :
            IF finished[s] = 1
            THEN finished'[s] = 1 /\ states'[s] = states[s]
            ELSE IF WithinTolerance(s)
            THEN finished'[s] = 1 /\ states'[s] = states[s]
            ELSE /\ finished'[s] = 0
                 /\ states'[s] = IF iteration = max_n_iterations - 1
                                 THEN STATE_MAX_ITERATION ELSE states[s]]_vars

\* the check has just run on the last iteration of the budget: one fit has
\* missed the tolerance, carries MAX_ITERATION and is not yet finished, and
\* one fit within tolerance is finished
C19_Witness ==
    /\ pc = "evaluate_iteration"
    /\ iteration = max_n_iterations - 1
    /\ \E s \in BatchSlots :
        /\ finished[s] = 0
        /\ states[s] = STATE_MAX_ITERATION
        /\ ~WithinTolerance(s)
    /\ \E s \in BatchSlots :
        /\ finished[s] = 1
        /\ WithinTolerance(s)

\* C20: the next-iteration prep acts on live fits only: a live fit with
\* chi_square < prev_chi_square gets lambda * 0.1 and prev_chi_square =
\* chi_square, its parameters kept; any other live fit gets lambda * 10,
\* chi_square = prev_chi_square and parameters = prev_parameters; a fit that
\* finished in an earlier iteration keeps lambda, chi_square, prev_chi_square
\* and parameters.
C20_PrepLiveOnly ==
    [][pc = "prepare_next_iteration" =>
        \A s \in BatchSlots :
            IF FinishedEarlier(s)
            THEN /\ lambdas'[s] = lambdas[s]
                 /\ chi_squares'[s] = chi_squares[s]
                 /\ prev_chi_squares'[s] = prev_chi_squares[s]
                 /\ parameters'[s] = parameters[s]
            ELSE IF chi_squares[s] < prev_chi_squares[s]
            THEN /\ lambdas'[s] = MulTenth(lambdas[s])
                 /\ prev_chi_squares'[s] = chi_squares[s]
                 /\ chi_squares'[s] = chi_squares[s]
                 /\ parameters'[s] = parameters[s]
            ELSE /\ lambdas'[s] = MulTen(lambdas[s])
                 /\ chi_squares'[s] = prev_chi_squares[s]
                 /\ prev_chi_squares'[s] = prev_chi_squares[s]
                 /\ parameters'[s] = prev_parameters[s]]_vars

(* ----------------------- rejection and recovery ----------------------- *)

\* the parameters a live fit holds at the head of the next iteration when
\* the prep rejects: step 8 copies p into prev_parameters before it adds
\* out.delta, and the rejecting prep copies prev_parameters back
AfterRejection(p, out) == p

\* some choice of solves lets the prep accept a step of fit s, held at
\* parameters p, within the next n iterations: the prep of an iteration
\* judges the chi-square of steps 1-2, taken before the update of step 8
RECURSIVE AcceptWithin(_, _, _)
AcceptWithin(s, p, n) ==
    /\ n > 0
    /\ \/ ChiSquareAt(s, p) < prev_chi_squares[s]
       \/ \E out \in SolverOutputs : AcceptWithin(s, AfterRejection(p, out), n - 1)

\* C21: rejection is recoverable: a live fit whose step was rejected in an
\* iteration can have a step accepted in a later iteration before the budget
\* is used up; a rejection does not force every following iteration of the
\* fit to be rejected as well.
C21_RejectionRecoverable ==
    \A s \in BatchSlots :
        (/\ pc = "calc_curve_values"
         /\ finished[s] = 0
         /\ last_step[s] = "rejected")
            => AcceptWithin(s, parameters[s], max_n_iterations - iteration)

(* ------------------- C22: the iteration_failed flag -------------------- *)

\* C22: the chi-square step leaves, for every fit that is not finished,
\* iteration_failed = 1 exactly when prev_chi_squares is not 0 and the new
\* chi-square is not below it, and 0 otherwise; for a finished fit it leaves
\* chi_squares and iteration_failed as they were.
C22_IterationFailedFlag ==
    [][pc = "calc_chi_squares" =>
        \A s \in BatchSlots :
            IF finished[s] = 0
            THEN iteration_failed'[s] =
                    (IF prev_chi_squares[s] # 0 /\ chi_squares'[s] >= prev_chi_squares[s]
                     THEN 1 ELSE 0)
            ELSE /\ chi_squares'[s] = chi_squares[s]
                 /\ iteration_failed'[s] = iteration_failed[s]]_vars

\* the chi-square step has just run on a chunk with a fit that failed its
\* iteration against a chi-square held from an accepted step, and with a
\* finished fit
C22_Witness ==
    /\ pc = "calc_gradients"
    /\ \E s \in BatchSlots :
        /\ finished[s] = 0
        /\ iteration_failed[s] = 1
        /\ prev_chi_squares[s] # 0
        /\ chi_squares[s] >= prev_chi_squares[s]
    /\ \E s \in BatchSlots : finished[s] = 1

(* ---------------- C23: gradient and Hessian are skipped ---------------- *)

\* C23: the gradient step and the Hessian step leave the stored gradient and
\* the stored (damped) Hessian of every fit with finished or iteration_failed
\* set exactly as they were, and rewrite all n_parameters_to_fit gradient
\* entries and all n_parameters_to_fit^2 Hessian entries of every other fit.
C23_SkippedOrRewritten ==
    [][LET
        Skipped(s) == finished[s] = 1 \/ iteration_failed[s] = 1
       IN
       /\ pc = "calc_gradients" =>
            \A s \in BatchSlots :
                IF Skipped(s) THEN gradients'[s] = gradients[s]
                ELSE \A p \in 1..n_parameters_to_fit :
                        gradients'[s][p] = GradientOf(s)[p]
       /\ pc = "calc_hessians" =>
            \A s \in BatchSlots :
                IF Skipped(s) THEN hessians'[s] = hessians[s]
                ELSE \A i, j \in 1..n_parameters_to_fit :
                        hessians'[s][i][j] = HessianOf(s)[i][j]]_vars

\* the Hessian step has just run in a later iteration: a live fit that failed
\* its iteration still holds its damped diagonal, and a live fit that did not
\* fail holds a fresh undamped Hessian where a damped one stood
C23_Witness ==
    /\ pc = "modify_step_widths"
    /\ iteration > 0
    /\ n_parameters_to_fit > 0
    /\ \E s, u \in BatchSlots :
        /\ finished[s] = 0 /\ iteration_failed[s] = 1
        /\ hessians[s][1][1].times # EmptyBag
        /\ finished[u] = 0 /\ iteration_failed[u] = 0
        /\ hessians[u] = HessianOf(u)

(* --------------------- C24: the damping step --------------------------- *)

\* the diagonal entry h of fit s, divided by 1 + lambda / 10 if the fit
\* failed its iteration and then multiplied by 1 + lambda
Damped(s, h) ==
    TimesOnePlus(IF iteration_failed[s] = 1 THEN OverOnePlus(h, MulTenth(lambdas[s])) ELSE h,
                 lambdas[s])

\* the damping step on fit s: the diagonal is damped, the rest is kept
DampsDiagonal(s) ==
    LET
        \* two entries hold the same number: a zero sum stays zero under every
        \* finite factor
        SameValue(a, b) == a = b \/ (a.sum = 0 /\ b.sum = 0)
    IN
    \A i, j \in 1..n_parameters_to_fit :
        IF i = j THEN SameValue(hessians'[s][i][i], Damped(s, hessians[s][i][i]))
        ELSE hessians'[s][i][j] = hessians[s][i][j]

\* C24 as stated: the damping step damps the diagonal of every fit of the
\* chunk and leaves off-diagonal entries, gradients and lambdas unchanged.
C24_Original ==
    [][pc = "modify_step_widths" =>
        /\ \A s \in BatchSlots : DampsDiagonal(s)
        /\ gradients' = gradients
        /\ lambdas' = lambdas]_vars

\* C24, amended: the damping step damps the diagonal of every fit that is
\* not finished (divided by 1 + lambda / 10 first if the fit failed its
\* iteration, then multiplied by 1 + lambda) and leaves the whole Hessian of
\* a finished fit, every off-diagonal entry, the gradients and the lambdas
\* unchanged.
C24_DampingOfLiveFits ==
    [][pc = "modify_step_widths" =>
        /\ \A s \in BatchSlots :
            IF finished[s] = 0 THEN DampsDiagonal(s)
            ELSE hessians'[s] = hessians[s]
        /\ gradients' = gradients
        /\ lambdas' = lambdas]_vars

\* the damping step has just run: a failed live fit holds a diagonal damped
\* by its present lambda, and a finished fit holds a non-zero diagonal
C24_Witness ==
    /\ pc = "solve_equation_system"
    /\ n_parameters_to_fit > 0
    /\ \E s, u \in BatchSlots :
        /\ finished[s] = 0 /\ iteration_failed[s] = 1
        /\ hessians[s][1][1].sum # 0
        /\ BagIn(lambdas[s], hessians[s][1][1].times)
        /\ finished[u] = 1
        /\ hessians[u][1][1].sum # 0

(* --------------------- C25: the damping undo --------------------------- *)

\* the damping step is about to run on fit s, live and failed, whose
\* retained diagonal entry i is not zero
UndoCase(s, i) ==
    /\ pc = "modify_step_widths"
    /\ finished[s] = 0
    /\ iteration_failed[s] = 1
    /\ hessians[s][i][i].sum # 0

\* the retained diagonal entry divided by 1 + lambda / 10
Undone(s, i) == OverOnePlus(hessians[s][i][i], MulTenth(lambdas[s]))

\* the division gives back the sum stored by the last Hessian computation
RoundTrip(s, i) == Undone(s, i) = Undamped(hessians[s][i][i].sum)

C26_SingularKeepsParameters ==
    [][pc = "update_parameters" =>
        \A s \in BatchSlots :
            (finished[s] = 0 /\ singular_checks[s] = 1) =>
                /\ parameters'[s] = parameters[s]
                /\ states[s] = STATE_SINGULAR_HESSIAN]_vars

(* -------------------- C27: a non-zero state is kept -------------------- *)

\* C27: a non-zero state, once assigned to a fit, is the state the fit exits
\* with: no step replaces it with a different state.
C27_NonZeroStateSticky ==
    [][\A s \in BatchSlots : states[s] # STATE_CONVERGED => states'[s] = states[s]]_vars

(* ------------- C28: a non-zero state finishes the fit ------------------ *)

\* C28: the bookkeeping step of iteration k leaves every fit whose state is
\* not CONVERGED finished, with n_iterations = k + 1 if the count was not
\* recorded before; and a finished fit takes no part in the evaluation, the
\* solve or the update of a later iteration: its values, chi-square, failed
\* flag, gradient, Hessian, delta, singular flag, parameters and state are
\* left as they were by every step up to the parameter update.
C28_NonZeroStateFinishes ==
    [][LET
        \* the steps of an iteration up to the parameter update
        ComputingSteps ==
            {"calc_curve_values", "calc_chi_squares", "calc_gradients", "calc_hessians",
             "modify_step_widths", "solve_equation_system", "update_states",
             "update_parameters"}
       IN
       \A s \in BatchSlots :
        /\ (pc = "evaluate_iteration" /\ states[s] # STATE_CONVERGED) =>
                /\ finished'[s] = 1
                /\ states'[s] = states[s]
                /\ n_iterations[s] = 0 => n_iterations'[s] = iteration + 1
        /\ (pc \in ComputingSteps /\ finished[s] = 1) =>
                /\ FinishedEarlier(s)
                /\ values'[s] = values[s]
                /\ chi_squares'[s] = chi_squares[s]
                /\ iteration_failed'[s] = iteration_failed[s]
                /\ gradients'[s] = gradients[s]
                /\ hessians'[s] = hessians[s]
                /\ deltas'[s] = deltas[s]
                /\ singular_checks'[s] = singular_checks[s]
                /\ parameters'[s] = parameters[s]
                /\ states'[s] = states[s]]_vars

\* the update of an iteration has just run for a live fit while a fit that
\* was given a non-zero state in the iteration before stands finished with
\* that iteration's count
C28_Witness ==
    /\ pc = "check_for_convergence"
    /\ iteration > 0
    /\ \E s, u \in BatchSlots :
        /\ states[s] # STATE_CONVERGED
        /\ finished[s] = 1
        /\ n_iterations[s] = iteration
        /\ finished[u] = 0
        /\ parameters[u] # prev_parameters[u]

(* ----------------- C29: n_iterations is written once ------------------- *)

\* C29: n_iterations[s] is 0 while the fit is live; the only step that
\* changes it is the bookkeeping step of the first iteration k in which the
\* fit is finished, which sets it from 0 to k + 1; no later step changes it.
C29_CountWrittenOnce ==
    [][\A s \in BatchSlots :
        /\ finished[s] = 0 => n_iterations[s] = 0
        /\ n_iterations'[s] # n_iterations[s] =>
                /\ pc = "evaluate_iteration"
                /\ n_iterations[s] = 0
                /\ finished'[s] = 1
                /\ n_iterations'[s] = iteration + 1
        /\ (pc = "evaluate_iteration" /\ finished'[s] = 1 /\ n_iterations[s] = 0) =>
                n_iterations'[s] = iteration + 1
        /\ (pc # "evaluate_iteration" /\ finished[s] = 1) => n_iterations[s] # 0]_vars

\* the bookkeeping step of a later iteration has just run: one fit holds the
\* count of an earlier iteration, another has just been given this one's
C29_Witness ==
    /\ pc = "prepare_next_iteration"
    /\ \E s, u \in BatchSlots :
        /\ n_iterations[s] # 0
        /\ n_iterations[s] <= iteration
        /\ n_iterations[u] = iteration + 1

(* ------------------ C30: the all_finished flag ------------------------- *)

\* C30: whatever the order of the threads of the bookkeeping step, after the
\* step all_finished is 1 exactly when every fit of the chunk is finished;
\* and the driver leaves the loop exactly when every fit is finished.
C30_AllFinishedFlag ==
    [][/\ pc = "evaluate_iteration" =>
            (all_finished'["batch"] = 1 <=> \A s \in BatchSlots : finished'[s] = 1)
       /\ pc = "loop" =>
            (pc' = "done" <=> \A s \in BatchSlots : finished[s] = 1)]_vars

\* the bookkeeping step of a later iteration has just cleared the flag on a
\* chunk with a finished fit and a live fit
C30_Witness ==
    /\ pc = "prepare_next_iteration"
    /\ iteration > 0
    /\ all_finished["batch"] = 0
    /\ \E s, u \in BatchSlots : finished[s] = 1 /\ finished[u] = 0

(* -------------- C31: the parameter update, every interleaving ---------- *)

\* C31: whatever the order of the per-slot threads of the update kernel,
\* after it prev_parameters of every fit holds the parameters the fit had
\* before it; a fit that is not finished has delta[p] added to the slot of
\* its p-th free parameter and every other slot unchanged; a finished fit
\* has its parameters unchanged.
C31_UpdateEveryInterleaving ==
    [][pc = "update_parameters" =>
        \A s \in BatchSlots :
            /\ prev_parameters'[s] = parameters[s]
            /\ \A j \in 1..n_parameters :
                parameters'[s][j] =
                    parameters[s][j] +
                    (IF finished[s] = 0
                        /\ \E p \in 1..n_parameters_to_fit : parameters_to_fit_indices[p] = j
                     THEN deltas[s][CHOOSE p \in 1..n_parameters_to_fit :
                                        parameters_to_fit_indices[p] = j]
                     ELSE 0)]_vars

(* --------------- C32: one writer for every output location ------------- *)

\* C32: in the launch of a kernel every output location is stored to by one
\* thread at most.
C32_SingleWriter ==
    InFlight => \A l \in BlockOutputs(block) : Cardinality(block.writers[l]) <= 1

(* ------------------ C33: the chi-square reduction ---------------------- *)

\* every thread of the block has returned or reached the end of the kernel
Ended(b) == \A tid \in BlockThreads(b) : b.at[tid] \in {"returned", "done"}

\* C33: in the chi-square kernel every value stored to chi_squares[fit] is
\* the sum of exactly the n_points summands of the fit: a thread that has
\* left the reduction finds that sum in slot 0, no halving step has added a
\* slot that was not written, and when the block has ended every fit that
\* did not return early has had its chi-square stored.
C33_ChiSquareIsSumOfPoints ==
    (InFlight /\ block.kernel = "cuda_calculate_chi_squares") =>
        \A f \in 0..(block.n_fits_per_block - 1) :
            LET l == OutputOf(block, f, 0)
                total == SumOfPoints(f, 0, block.n_points)
            IN  /\ block.writers[l] # {} => block.out[l] = total
                /\ \A tid \in BlockThreads(block) :
                      (fit_in_block(block, tid) = f /\ block.at[tid] = "store")
                          => block.shared[f][0] = total
                /\ (Ended(block) /\ ~ReturnsEarly(block, f)) => block.writers[l] # {}

\* the chi-square kernel has ended on a fit of three points reduced over a
\* width of four, the pad slot included, and the sum is stored
C33_Witness ==
    /\ InFlight
    /\ block.kernel = "cuda_calculate_chi_squares"
    /\ block.n_points = 3
    /\ block.shared_size = 4
    /\ Ended(block)
    /\ block.out[OutputOf(block, 0, 0)] = SumOfPoints(0, 0, 3)

(* ------------------ C34: the gradient reductions ----------------------- *)

\* C34: in the gradient kernel, whatever the order of the threads of a fit
\* between the barriers, the value stored to the gradient entry of the free
\* parameter p is the sum of the n_points summands of parameter p, and a pad
\* slot holds zero whenever its thread enters a reduction.
C34_GradientIsSumOfPoints ==
    (InFlight /\ block.kernel = "cuda_calculate_gradients") =>
        /\ \A l \in BlockOutputs(block) :
              block.writers[l] # {} => block.out[l] = SumOfPoints(l[2], l[3], block.n_points)
        /\ \A tid \in BlockThreads(block) :
              (block.at[tid] = "barrier" /\ point_index(block, tid) >= block.n_points)
                  => block.shared[fit_in_block(block, tid)][point_index(block, tid)] = EmptyBag

LowestAccepted(s) ==
    /\ prev_chi_squares[s] \in accepted_chi[s]
    /\ \A a \in accepted_chi[s] : prev_chi_squares[s] <= a

\* the prep leaves chi_square equal to prev_chi_square and does not raise
\* prev_chi_square
PrepEqualises(s) ==
    /\ chi_squares'[s] = prev_chi_squares'[s]
    /\ prev_chi_squares'[s] <= prev_chi_squares[s]

\* C36: at the end of every iteration, after the next-iteration prep,
\* chi_square equals prev_chi_square for every fit, and prev_chi_square is
\* never greater than it was at the start of the iteration (no other step
\* of the iteration writes it); so the convergence check of the next
\* iteration compares the new chi-square with the lowest chi-square
\* accepted so far.
C36_PrepKeepsLowestAccepted ==
    [][/\ pc = "prepare_next_iteration" => \A s \in BatchSlots : PrepEqualises(s)
       /\ pc # "prepare_next_iteration" => prev_chi_squares' = prev_chi_squares
       /\ (pc = "check_for_convergence" /\ iteration >= 1) =>
              \A s \in BatchSlots : finished[s] = 0 => LowestAccepted(s)]_vars

(* ---------------------- the fits of a kernel launch -------------------- *)

\* the highest index from either end of a launch that is looked at
MaxSampledIndex == 8

\* C37: for every chunk size >= 1 the n_fits_per_block of
\* set_fits_per_block is at least 1 and divides the chunk size, so no thread
\* of a kernel launched over the chunk computes a fit_index outside
\* [0, chunk size).
C37_FitsPerBlockDividesChunk ==
    LET
        \* the indices 0..n-1, all of them when n is small, else those at both ends
        SampledIndices(n) ==
            {k \in 0..MaxSampledIndex : k < n}
                \cup {n - 1 - k : k \in {j \in 0..MaxSampledIndex : j < n}}
        \* the blocks of a launch over the current chunk: n_fits_per_block fits each
        LaunchBlocks(i) == i.current_chunk_size \div i.n_fits_per_block_
        \* the threads of a block: n_points per fit in the curve-value kernel, the
        \* reduction width per fit in the chi-square and gradient kernels
        CurveBlockDim(i) == i.n_points_ * i.n_fits_per_block_
        ReductionBlockDim(i) == i.power_of_two_n_points_ * i.n_fits_per_block_
        \* fit_index of cuda_calc_curve_values
        curve_fit_index(i, blockIdx, threadIdx) ==
            LET fit_in_block_ == threadIdx \div i.n_points_
            IN  blockIdx * i.n_fits_per_block_ + fit_in_block_
        \* fit_index of cuda_calculate_chi_squares and cuda_calculate_gradients
        reduction_fit_index(i, blockIdx, threadIdx) ==
            LET shared_size == ReductionBlockDim(i) \div i.n_fits_per_block_
                fit_in_block_ == threadIdx \div shared_size
            IN  blockIdx * i.n_fits_per_block_ + fit_in_block_
    IN
    (pc = "planned" /\ info.current_chunk_size >= 1) =>
        /\ info.n_fits_per_block_ >= 1
        /\ info.current_chunk_size % info.n_fits_per_block_ = 0
        /\ LaunchBlocks(info) * info.n_fits_per_block_ = info.current_chunk_size
        /\ \A blockIdx \in SampledIndices(LaunchBlocks(info)) :
             /\ \A threadIdx \in SampledIndices(CurveBlockDim(info)) :
                   curve_fit_index(info, blockIdx, threadIdx)
                       \in 0..(info.current_chunk_size - 1)
             /\ \A threadIdx \in SampledIndices(ReductionBlockDim(info)) :
                   reduction_fit_index(info, blockIdx, threadIdx)
                       \in 0..(info.current_chunk_size - 1)

\* a chunk of 10 fits: 4 does not divide it, 2 does
C37_Witness ==
    /\ pc = "planned"
    /\ info.current_chunk_size = 10
    /\ info.n_fits_per_block_ = 2
    /\ info.n_points_ = 5

(* ------------------------ the published chunk size --------------------- *)

\* C38: whenever the available memory is at least the one-fit footprint,
\* max_blocks >= 1 and n_fits >= 1, configure() returns with
\* 1 <= max_chunk_size_ <= n_fits_, max_chunk_size_ <= available memory /
\* one-fit footprint and max_chunk_size_ <= max_blocks_.
C38_ChunkSizeWithinLimits ==
    LET
        \* the device can hold one fit, has a block and the call has a fit
        CanHoldOneFit(i) ==
            /\ i.available_gpu_memory_ >= OneFitWords(i)
            /\ i.max_blocks_ >= 1
            /\ i.n_fits_ >= 1
    IN
    (PlanningOver /\ CanHoldOneFit(info)) =>
        /\ Planned
        /\ 1 <= info.max_chunk_size_
        /\ info.max_chunk_size_ <= info.n_fits_
        /\ info.max_chunk_size_ <= info.available_gpu_memory_ \div OneFitWords(info)
        /\ info.max_chunk_size_ <= info.max_blocks_

(* --------------- set_max_chunk_size() with 64-bit std::size_t ----------- *)
(* The planner above keeps every size below 2^31. Here the std::size_t      *)
(* members of Info (n_fits_, max_chunk_size_, max_blocks_,                  *)
(* available_gpu_memory_, the latter in bytes) hold 64-bit values, so that  *)
(* the limit highest_size_t_value / highest_factor can bind.                *)

\* a std::size_t value at its full width: the sequence of its digits in
\* base Limb, lowest first, without leading zeros (0 is the empty sequence)
Limb == 10000

RECURSIVE Wide(_)
Wide(n) == IF n = 0 THEN << >> ELSE <<n % Limb>> \o Wide(n \div Limb)

RECURSIVE Trimmed(_)
Trimmed(a) ==
    IF a = << >> THEN << >>
    ELSE IF a[Len(a)] = 0 THEN Trimmed(SubSeq(a, 1, Len(a) - 1))
    ELSE a

RECURSIVE WideAddCarry(_, _, _)
WideAddCarry(a, b, c) ==
    IF a = << >> /\ b = << >> THEN (IF c = 0 THEN << >> ELSE <<c>>)
    ELSE LET da == IF a = << >> THEN 0 ELSE Head(a)
             db == IF b = << >> THEN 0 ELSE Head(b)
             ta == IF a = << >> THEN << >> ELSE Tail(a)
             tb == IF b = << >> THEN << >> ELSE Tail(b)
             s == da + db + c
         IN  <<s % Limb>> \o WideAddCarry(ta, tb, s \div Limb)

WideAdd(a, b) == WideAddCarry(a, b, 0)

\* a - b for a >= b
RECURSIVE WideSubBorrow(_, _, _)
WideSubBorrow(a, b, c) ==
    IF a = << >> THEN << >>
    ELSE LET db == IF b = << >> THEN 0 ELSE Head(b)
             tb == IF b = << >> THEN << >> ELSE Tail(b)
             s == Head(a) - db - c
         IN  IF s < 0 THEN <<s + Limb>> \o WideSubBorrow(Tail(a), tb, 1)
             ELSE <<s>> \o WideSubBorrow(Tail(a), tb, 0)

WideSub(a, b) == Trimmed(WideSubBorrow(a, b, 0))

RECURSIVE WideLessFrom(_, _, _)
WideLessFrom(a, b, k) ==
    IF k = 0 THEN FALSE
    ELSE IF a[k] # b[k] THEN a[k] < b[k]
    ELSE WideLessFrom(a, b, k - 1)

WideLess(a, b) ==
    IF Len(a) # Len(b) THEN Len(a) < Len(b) ELSE WideLessFrom(a, b, Len(a))

WideMin(a, b) == IF WideLess(b, a) THEN b ELSE a

\* a * d for one digit d
RECURSIVE WideTimesDigit(_, _, _)
WideTimesDigit(a, d, c) ==
    IF a = << >> THEN (IF c = 0 THEN << >> ELSE <<c>>)
    ELSE LET s == Head(a) * d + c
         IN  <<s % Limb>> \o WideTimesDigit(Tail(a), d, s \div Limb)

RECURSIVE WideMul(_, _)
WideMul(a, b) ==
    IF a = << >> \/ b = << >> THEN << >>
    ELSE LET rest == WideMul(Tail(a), b)
         IN  WideAdd(Trimmed(WideTimesDigit(b, Head(a), 0)),
                     IF rest = << >> THEN << >> ELSE <<0>> \o rest)

\* b * d <= r
FitsTimes(r, b, d) == ~WideLess(r, Trimmed(WideTimesDigit(b, d, 0)))

\* the largest digit d with b * d <= r, for r < b * Limb: first its
\* hundreds, then the rest
QuotientDigit(r, b) ==
    LET hundreds == CHOOSE h \in 0..99 :
                        /\ FitsTimes(r, b, 100 * h)
                        /\ h < 99 => ~FitsTimes(r, b, 100 * (h + 1))
    IN  CHOOSE d \in (100 * hundreds)..(100 * hundreds + 99) :
            /\ FitsTimes(r, b, d)
            /\ d < 100 * hundreds + 99 => ~FitsTimes(r, b, d + 1)

\* one step of the long division: the digit below a partial result
WideDivStep(digit, high, b) ==
    LET r == Trimmed(<<digit>> \o high.remainder)
        d == QuotientDigit(r, b)
    IN  [quotient |-> Trimmed(<<d>> \o high.quotient),
         remainder |-> WideSub(r, Trimmed(WideTimesDigit(b, d, 0)))]

\* quotient and remainder of a / b, digit by digit from the top; every
\* caller excludes b = 0
RECURSIVE WideDivMod(_, _)
WideDivMod(a, b) ==
    IF a = << >> \/ b = << >>
    THEN [quotient |-> << >>, remainder |-> << >>]
    ELSE LET high == WideDivMod(Tail(a), b)
         IN  IF high.quotient = << >> /\ high.remainder = << >> /\ Len(b) > 1
             THEN [quotient |-> << >>, remainder |-> Trimmed(<<Head(a)>>)]
             ELSE WideDivStep(Head(a), high, b)

WideDiv(a, b) == WideDivMod(a, b).quotient

TwoTo64 == <<1616, 955, 737, 6744, 1844>>

\* std::numeric_limits< std::size_t >::max(): 18446744073709551615
highest_size_t_value == <<1615, 955, 737, 6744, 1844>>

\* available_gpu_memory_ / one_fit_memory, for one_fit_memory # 0
tmp_chunk_size64(i) ==
    LET
        \* an int converted to std::size_t: a negative one is taken modulo 2^64
        ToSizeT(n) == IF n >= 0 THEN Wide(n) ELSE WideSub(TwoTo64, Wide(0 - n))
    IN
    WideDiv(i.available_gpu_memory_, ToSizeT(one_fit_memory(i)))

\* the int product of highest_factor leaves int
highest_factor_leaves_int(i) ==
    IF i.n_parameters_to_fit_ # 0
    THEN highest_factor_overflows(i)
    ELSE i.n_parameters_ # 0 /\ i.n_points_ > IntMax \div i.n_parameters_

\* highest_factor, when its int product stays in int
highest_factor64(i) ==
    IF i.n_parameters_to_fit_ # 0
    THEN WideMul(Wide(i.n_points_ * i.n_parameters_to_fit_
                          * i.n_parameters_to_fit_), Wide(4))
    ELSE Wide(i.n_points_ * i.n_parameters_)

\* faulty variant: the chunk size is not compared with the limit
clamped_chunk_size_Unclamped(tmp, highest_factor) == tmp

\* if (tmp_chunk_size > highest_size_t_value / highest_factor)
\*     tmp_chunk_size = highest_size_t_value / highest_factor;
clamped_chunk_size(tmp, highest_factor) ==
    LET limit == WideDiv(highest_size_t_value, highest_factor)
    IN  IF WideLess(limit, tmp) THEN limit ELSE tmp

\* the passes of the loop `while (tmp_chunk_size > divisor)`
RECURSIVE rounding_passes(_)
rounding_passes(tmp) ==
    IF WideLess(Wide(10), tmp)
    THEN 1 + rounding_passes(WideDiv(tmp, Wide(10)))
    ELSE 0

\* 10^k: Limb is 10^4
WidePowerOfTen(k) ==
    [j \in 1..(k \div 4 + 1) |->
        IF j <= k \div 4 THEN 0
        ELSE CASE k % 4 = 0 -> 1 [] k % 4 = 1 -> 10
               [] k % 4 = 2 -> 100 [] OTHER -> 1000]

\* int i after k passes of `i *= divisor`, converted to std::size_t for
\* the division at line 109; from the tenth pass on the product has left
\* int and this is the value of a build that wraps
rounding_int_as_size_t(k) ==
    LET
        \* 2^32 = 4294967296 and 2^64 = 18446744073709551616
        TwoTo32 == <<7296, 9496, 42>>
    IN
    LET r == WideDivMod(WidePowerOfTen(k), TwoTo32).remainder
    IN  IF WideLess(Wide(IntMax), r)
        THEN WideAdd(WideSub(TwoTo64, TwoTo32), r)
        ELSE r

\* i *= divisor leaves int in the tenth pass
rounding_leaves_int(passes) == passes > 9

\* max_chunk_size_ / i * i after the given number of passes, then std::min
\* with n_fits_
max_chunk_size64(tmp, passes, n_fits) ==
    LET i == rounding_int_as_size_t(passes)
    IN  WideMin(WideMul(WideDiv(tmp, i), i), n_fits)

\* set_max_chunk_size(): the outcomes it can have and the Info object each
\* leaves. Division by zero and int overflow are undefined: the call
\* aborts, or (overflow of i) goes on with the wrapped value
set_max_chunk_size64(i) ==
    IF one_fit_memory(i) = 0
    THEN {[outcome |-> "undefined", info |-> i]}
    ELSE LET chunk == tmp_chunk_size64(i)
         IN  IF chunk = << >>
             THEN {[outcome |-> "throw", info |-> i]}
             ELSE IF highest_factor_leaves_int(i) \/ highest_factor64(i) = << >>
             THEN {[outcome |-> "undefined", info |-> i]}
             ELSE LET tmp == clamped_chunk_size(WideMin(chunk, i.max_blocks_),
                                                highest_factor64(i))
                      passes == rounding_passes(tmp)
                      done == [outcome |-> "ok",
                               info |-> [i EXCEPT !.max_chunk_size_ =
                                   max_chunk_size64(tmp, passes, i.n_fits_)]]
                  IN  IF rounding_leaves_int(passes)
                      THEN {done, [outcome |-> "undefined", info |-> i]}
                      ELSE {done}

\* the Info object when set_max_chunk_size() is called
WideInfos ==
    LET
        \* the sizes of a call: n_points, n_parameters, n_parameters_to_fit, weights
        WideShapes ==
            {<<100000000, 3, 3, FALSE>>, <<100, 5, 5, FALSE>>, <<8, 3, 3, FALSE>>,
             <<5, 2, 0, TRUE>>, <<1, 1, 1, FALSE>>}
        \* device memory in bytes, blocks of the device, fits of the call
        WideMemory ==
            {highest_size_t_value, WidePowerOfTen(19), WidePowerOfTen(10),
             Wide(20000000), Wide(40)}
        WideBlocks == {highest_size_t_value, WideMul(Wide(6), WidePowerOfTen(9)), Wide(65535)}
        WideFits == {highest_size_t_value, Wide(100000), Wide(1)}
    IN
    {[InfoConstructed EXCEPT !.n_points_ = sh[1], !.n_parameters_ = sh[2],
                             !.n_parameters_to_fit_ = sh[3],
                             !.use_weights_ = sh[4],
                             !.power_of_two_n_points_ =
                                 power_of_two_loop(1, sh[1]).value,
                             !.n_fits_ = f, !.max_blocks_ = b,
                             !.available_gpu_memory_ = m,
                             !.max_chunk_size_ = << >>] :
        sh \in WideShapes, f \in WideFits, b \in WideBlocks, m \in WideMemory}

SetMaxChunkSize64 ==
    /\ pc = "set_max_chunk_size"
    /\ \E o \in set_max_chunk_size64(info) :
        /\ info' = o.info
        /\ pc' = CASE o.outcome = "ok" -> "planned"
                   [] o.outcome = "throw" -> "error"
                   [] OTHER -> "aborted"
    /\ UNCHANGED <<block, equations, inputs, fitstate, scratch, all_finished,
                   running, iteration, history>>

InitWide ==
    InitFrom({"batch"}, {<<1, 0>>}, {LSE}, {1},
             {[f \in Fits |-> [d |-> 0, w |-> 1, p |-> <<0, 0>>]]},
             WideInfos, "set_max_chunk_size", {NoBlock})

NextWide == SetMaxChunkSize64

SpecWide == InitWide /\ [][NextWide]_vars

\* C39: after set_max_chunk_size(), for every input whose highest_factor
\* is non-zero and computed without overflow, max_chunk_size_ *
\* highest_factor is at most SIZE_MAX.
C39_ProductWithinSizeT ==
    (/\ pc = "planned"
     /\ ~highest_factor_leaves_int(info)
     /\ highest_factor64(info) # << >>)
    => ~WideLess(highest_size_t_value,
                 WideMul(info.max_chunk_size_, highest_factor64(info)))

\* the limit binds and the rounding stays in int: 10^8 points, 3 free
\* parameters, a chunk size of 5,000,000,000
C39_Witness ==
    LET
        \* the limit of lines 95-98 was the least of the limits
        LimitBinds(i) ==
            WideLess(WideDiv(highest_size_t_value, highest_factor64(i)),
                     WideMin(tmp_chunk_size64(i), i.max_blocks_))
    IN
    /\ pc = "planned"
    /\ ~highest_factor_leaves_int(info)
    /\ LimitBinds(info)
    /\ ~rounding_leaves_int(rounding_passes(
            WideDiv(highest_size_t_value, highest_factor64(info))))
    /\ info.max_chunk_size_ = WideMul(Wide(5), WidePowerOfTen(9))


====
